---- MODULE Spec2Model ----
(***************************************************************************)
(* M2 Code Guardian (scripts/automation/M2_code_guardian.py): the file     *)
(* scanner, the directory aggregator and the recommendation generator,     *)
(* modelled as a state machine over a small file tree.                     *)
(*                                                                         *)
(* Conventions.  A source text is kept as the list of its lines, i.e. as   *)
(* what source_code.split('\n') returns.  Floats are kept exact: a         *)
(* confidence is a percentage, a health score is a fraction num/den.       *)
(* None is the string "None".                                              *)
(***************************************************************************)
EXTENDS Integers, Sequences, FiniteSets, TLC

\* ------------------------------------------------------------------------
\* Enumerations
\* ------------------------------------------------------------------------

\* VulnerabilityLevel, in declaration order; the only members there are.
VulnerabilityLevel == <<"CRITICAL", "HIGH", "MEDIUM", "LOW", "INFO">>

\* VulnerabilityLevel.<member>.value
LevelValue(level) ==
  CASE level = "CRITICAL" -> "critical"
    [] level = "HIGH"     -> "high"
    [] level = "MEDIUM"   -> "medium"
    [] level = "LOW"      -> "low"
    [] level = "INFO"     -> "info"

\* OWASPCategory.<member>.value
OWASPValue(cat) ==
  CASE cat = "A01_BROKEN_ACCESS_CONTROL"     -> "Broken Access Control"
    [] cat = "A02_CRYPTOGRAPHIC_FAILURES"    -> "Cryptographic Failures"
    [] cat = "A03_INJECTION"                 -> "Injection"
    [] cat = "A04_INSECURE_DESIGN"           -> "Insecure Design"
    [] cat = "A05_SECURITY_MISCONFIGURATION" -> "Security Misconfiguration"
    [] cat = "A06_VULNERABLE_COMPONENTS"     -> "Vulnerable and Outdated Components"
    [] cat = "A07_AUTH_FAILURES"             -> "Identification and Authentication Failures"
    [] cat = "A08_DATA_INTEGRITY_FAILURES"   -> "Software and Data Integrity Failures"
    [] cat = "A09_LOGGING_FAILURES"          -> "Security Logging and Monitoring Failures"
    [] cat = "A10_SSRF"                      -> "Server-Side Request Forgery"

\* ------------------------------------------------------------------------
\* Strings (str methods and the re module, as far as the scanner uses them)
\* ------------------------------------------------------------------------

Min(a, b) == IF a < b THEN a ELSE b
Max(a, b) == IF a > b THEN a ELSE b

\* s[i-1] in Python terms: the i-th character, 1-based.
Char(s, i) == SubSeq(s, i, i)

\* s[a-1:b] with Python's slice clipping.
Slice(s, a, b) == IF a > Min(b, Len(s)) THEN "" ELSE SubSeq(s, a, Min(b, Len(s)))

\* sub in s
Contains(s, sub) ==
  \E i \in 1..(Len(s) - Len(sub) + 1) : SubSeq(s, i, i + Len(sub) - 1) = sub

\* s.startswith(prefix)
StartsWith(s, prefix) ==
  Len(prefix) <= Len(s) /\ SubSeq(s, 1, Len(prefix)) = prefix

\* s.endswith(suffix)
EndsWith(s, suffix) ==
  Len(suffix) <= Len(s) /\ SubSeq(s, Len(s) - Len(suffix) + 1, Len(s)) = suffix

Whitespace == {" ", "\t", "\n", "\r"}

\* s.strip()
Strip(s) ==
  LET keep == {i \in 1..Len(s) : Char(s, i) \notin Whitespace}
  IN  IF keep = {} THEN ""
      ELSE LET lo == CHOOSE i \in keep : \A j \in keep : i <= j
               hi == CHOOSE i \in keep : \A j \in keep : i >= j
           IN  SubSeq(s, lo, hi)

UpperLetters == "ABCDEFGHIJKLMNOPQRSTUVWXYZ"
LowerLetters == "abcdefghijklmnopqrstuvwxyz"

\* The two cases of a character (re.IGNORECASE matches either).
BothCases(c) ==
  {c} \cup {Char(UpperLetters, i) : i \in {j \in 1..26 : Char(LowerLetters, j) = c}}
      \cup {Char(LowerLetters, i) : i \in {j \in 1..26 : Char(UpperLetters, j) = c}}

\* s.upper()
RECURSIVE Upper(_)
Upper(s) ==
  IF s = "" THEN ""
  ELSE LET c   == Char(s, 1)
           pos == {j \in 1..26 : Char(LowerLetters, j) = c}
       IN  (IF pos = {} THEN c ELSE Char(UpperLetters, CHOOSE j \in pos : TRUE))
             \o Upper(SubSeq(s, 2, Len(s)))

\* '\n'.join(parts)
RECURSIVE JoinLines(_)
JoinLines(parts) ==
  IF parts = <<>> THEN ""
  ELSE IF Len(parts) = 1 THEN parts[1]
  ELSE parts[1] \o "\n" \o JoinLines(Tail(parts))

\* The characters a line can hold ('.' and negated classes range over them):
\* printable ASCII (without the backquote) and the tab.
Printable ==
  " !\"#$%&'()*+,-./0123456789:;<=>?@ABCDEFGHIJKLMNOPQRSTUVWXYZ[\\]^_abcdefghijklmnopqrstuvwxyz{|}~"

AnyChar == {Char(Printable, i) : i \in 1..Len(Printable)} \cup {"\t"}

\* A regular expression is a sequence of items [chars, lo, many]: at least lo
\* characters of the set chars, and at most one unless many ('*' and '+').
One(cs)  == [chars |-> cs, lo |-> 1, many |-> FALSE]
Opt(cs)  == [chars |-> cs, lo |-> 0, many |-> FALSE]
Star(cs) == [chars |-> cs, lo |-> 0, many |-> TRUE]
Plus(cs) == [chars |-> cs, lo |-> 1, many |-> TRUE]

\* A literal word; with ic (re.IGNORECASE) each letter matches in both cases.
Lit(word, ic) ==
  [i \in 1..Len(word) |->
     One(IF ic THEN BothCases(Char(word, i)) ELSE {Char(word, i)})]

Quote == {"\"", "'"}

\* The items from index i on match s at position pos (backtracking).
RECURSIVE MatchAt(_, _, _, _)
MatchAt(re, i, s, pos) ==
  IF i > Len(re) THEN TRUE
  ELSE \E k \in re[i].lo..(IF re[i].many THEN Len(s) - pos + 1
                            ELSE Min(1, Len(s) - pos + 1)) :
         /\ \A j \in 0..(k - 1) : Char(s, pos + j) \in re[i].chars
         /\ MatchAt(re, i + 1, s, pos + k)

\* re.search(re, s) is not None
Search(re, s) == \E pos \in 1..(Len(s) + 1) : MatchAt(re, 1, s, pos)

\* ------------------------------------------------------------------------
\* SecurityFinding
\* ------------------------------------------------------------------------

SecurityFinding(file_path, line_number, column, vulnerability_type, owasp_category, severity, description, recommendation, code_snippet, cwe_id, confidence) ==
  [file_path          |-> file_path,
   line_number        |-> line_number,
   column             |-> column,
   vulnerability_type |-> vulnerability_type,
   owasp_category     |-> owasp_category,
   severity           |-> severity,
   description        |-> description,
   recommendation     |-> recommendation,
   code_snippet       |-> code_snippet,
   cwe_id             |-> cwe_id,
   confidence         |-> confidence]

\* SecurityFinding.to_dict
to_dict(f) ==
  [file_path      |-> f.file_path,
   location       |-> "L" \o ToString(f.line_number) \o ":C" \o ToString(f.column),
   type           |-> f.vulnerability_type,
   owasp          |-> OWASPValue(f.owasp_category),
   severity       |-> LevelValue(f.severity),
   description    |-> f.description,
   recommendation |-> f.recommendation,
   snippet        |-> f.code_snippet,
   cwe            |-> f.cwe_id,
   confidence     |-> f.confidence]

\* The default of SecurityFinding.confidence (1.0), as a percentage.
DefaultConfidence == 100

\* Concatenation of a sequence of sequences.
RECURSIVE Flatten(_)
Flatten(ss) == IF ss = <<>> THEN <<>> ELSE Head(ss) \o Flatten(Tail(ss))

\* ------------------------------------------------------------------------
\* Textual checks on the raw source
\* ------------------------------------------------------------------------

\* ["']?<name>["']?\s*[:=]\s*["'][^"']+["']   (name already a regex)
SecretShape(name) ==
  <<Opt(Quote)>> \o name \o
  <<Opt(Quote), Star(Whitespace), One({":", "="}), Star(Whitespace), One(Quote),
    Plus(AnyChar \ Quote), One(Quote)>>

secret_patterns ==
  << [re |-> SecretShape(Lit("api", TRUE) \o <<Opt({"_", "-"})>> \o Lit("key", TRUE)),
      secret_type |-> "API Key"],
     [re |-> SecretShape(Lit("secret", TRUE) \o <<Opt({"_", "-"})>> \o Lit("key", TRUE)),
      secret_type |-> "Secret Key"],
     [re |-> SecretShape(Lit("password", TRUE)),
      secret_type |-> "Hardcoded Password"],
     [re |-> SecretShape(Lit("token", TRUE)),
      secret_type |-> "Access Token"],
     [re |-> SecretShape(Lit("aws", TRUE) \o <<Opt({"_", "-"})>> \o Lit("access", TRUE)
                           \o <<Opt({"_", "-"})>> \o Lit("key", TRUE)),
      secret_type |-> "AWS Credentials"] >>

\* The length a secret snippet is cut to.
SnippetLimit == 50

\* _check_hardcoded_secrets with its confidence written as a percentage
\* (confidence=80) where the field holds a fraction.
check_hardcoded_secrets_percent(lines, file_path) ==
  Flatten([line_no \in 1..Len(lines) |->
    Flatten([p \in 1..Len(secret_patterns) |->
      IF Search(secret_patterns[p].re, lines[line_no])
      THEN << SecurityFinding(file_path, line_no, 0, "Hardcoded Secret",
                "A02_CRYPTOGRAPHIC_FAILURES", "HIGH",
                "Potential hardcoded " \o secret_patterns[p].secret_type \o " detected",
                "Use environment variables or secure key management",
                Slice(Strip(lines[line_no]), 1, SnippetLimit) \o "...",
                "CWE-798", 80 * 100) >>
      ELSE <<>>])])

\* CodeGuardian._check_hardcoded_secrets: every line, every pattern.
check_hardcoded_secrets(lines, file_path) ==
  Flatten([line_no \in 1..Len(lines) |->
    Flatten([p \in 1..Len(secret_patterns) |->
      IF Search(secret_patterns[p].re, lines[line_no])
      THEN << SecurityFinding(file_path, line_no, 0, "Hardcoded Secret",
                "A02_CRYPTOGRAPHIC_FAILURES", "HIGH",
                "Potential hardcoded " \o secret_patterns[p].secret_type \o " detected",
                "Use environment variables or secure key management",
                Slice(Strip(lines[line_no]), 1, SnippetLimit) \o "...",
                "CWE-798", 80) >>
      ELSE <<>>])])

weak_crypto ==
  << [algo |-> "MD5",  cwe |-> "CWE-327"],
     [algo |-> "SHA1", cwe |-> "CWE-327"],
     [algo |-> "DES",  cwe |-> "CWE-327"],
     [algo |-> "RC4",  cwe |-> "CWE-327"] >>

\* _check_weak_crypto without the break of its inner loop: per algorithm, every
\* line naming it.
check_weak_crypto_every_line(lines, file_path) ==
  Flatten([a \in 1..Len(weak_crypto) |->
    Flatten([line_no \in 1..Len(lines) |->
      IF Contains(lines[line_no], weak_crypto[a].algo)
      THEN << SecurityFinding(file_path, line_no, 0, "Weak Cryptography",
                "A02_CRYPTOGRAPHIC_FAILURES", "MEDIUM",
                "Use of weak cryptographic algorithm: " \o weak_crypto[a].algo,
                "Use stronger algorithms (SHA-256, AES, etc.)",
                Strip(lines[line_no]), weak_crypto[a].cwe, 90) >>
      ELSE <<>>])])

\* CodeGuardian._check_weak_crypto: per algorithm, the first line naming it.
check_weak_crypto(lines, file_path) ==
  Flatten([a \in 1..Len(weak_crypto) |->
    LET hits == {n \in 1..Len(lines) : Contains(lines[n], weak_crypto[a].algo)}
    IN  IF hits = {} THEN <<>>
        ELSE LET line_no == CHOOSE n \in hits : \A m \in hits : n <= m
             IN  << SecurityFinding(file_path, line_no, 0, "Weak Cryptography",
                      "A02_CRYPTOGRAPHIC_FAILURES", "MEDIUM",
                      "Use of weak cryptographic algorithm: " \o weak_crypto[a].algo,
                      "Use stronger algorithms (SHA-256, AES, etc.)",
                      Strip(lines[line_no]), weak_crypto[a].cwe, 90) >>])

log_patterns ==
  << Lit("log", TRUE) \o <<Star(AnyChar)>> \o Lit("password", TRUE),
     Lit("print", TRUE) \o <<Star(AnyChar)>> \o Lit("password", TRUE),
     Lit("console.log", TRUE) \o <<Star(AnyChar)>> \o Lit("password", TRUE),
     Lit("logger", TRUE) \o <<Star(AnyChar)>> \o Lit("credit", TRUE)
        \o <<Opt({"_", "-"})>> \o Lit("card", TRUE),
     Lit("log", TRUE) \o <<Star(AnyChar)>> \o Lit("ssn", TRUE) >>

\* CodeGuardian._check_logging_issues: at most one finding per line (break).
check_logging_issues(lines, file_path) ==
  Flatten([line_no \in 1..Len(lines) |->
    IF \E p \in 1..Len(log_patterns) : Search(log_patterns[p], lines[line_no])
    THEN << SecurityFinding(file_path, line_no, 0, "Sensitive Data in Logs",
              "A09_LOGGING_FAILURES", "MEDIUM",
              "Potential sensitive data exposure in logs",
              "Never log passwords, tokens, or PII",
              Strip(lines[line_no]), "CWE-532", 70) >>
    ELSE <<>>])

\* ------------------------------------------------------------------------
\* CodeMetrics
\* ------------------------------------------------------------------------

\* A float kept exact, as the fraction num/den (den > 0).
Frac(num, den) == [num |-> num, den |-> den]

\* CodeMetrics(): the dataclass defaults.
CodeMetrics ==
  [total_lines           |-> 0,
   code_lines            |-> 0,
   comment_lines         |-> 0,
   blank_lines           |-> 0,
   cyclomatic_complexity |-> 0,
   cognitive_complexity  |-> 0,
   maintainability_index |-> Frac(0, 1),
   technical_debt_hours  |-> 0,
   test_coverage         |-> 0,
   dependencies          |-> {}]

\* CodeMetrics.calculate_health_score, in hundredths of the index's denominator:
\* the maintainability term is left out when the index is not positive, and
\* only it is capped at 100.
calculate_health_score(m) ==
  LET mi               == m.maintainability_index
      maintainability  == IF mi.num > 0 THEN Min(mi.num, 100 * mi.den) * 30 ELSE 0
      complexity_score == Max(0, 100 - m.cyclomatic_complexity * 2)
      debt_score       == Max(0, 100 - m.technical_debt_hours * 5)
  IN  Frac(maintainability
             + mi.den * (complexity_score * 30 + m.test_coverage * 25 + debt_score * 15),
           100 * mi.den)

\* a < n for a fraction a and an integer n
FracLess(a, n) == a.num < n * a.den

\* ------------------------------------------------------------------------
\* The syntax tree and ASTSecurityAnalyzer
\* ------------------------------------------------------------------------

\* A node of the tree ast.parse returns.  name is Name.id, Attribute.attr,
\* alias.name, ImportFrom.module, keyword.arg, the operator class of a BinOp or
\* the type of a Constant's value ("True" for the constant True); nargs is
\* len(Call.args); children are ast.iter_child_nodes in order, without the
\* operator and expression-context nodes (which no visitor looks at).
N(kind, lineno, col_offset, name, nargs, children) ==
  [kind |-> kind, lineno |-> lineno, col_offset |-> col_offset,
   name |-> name, nargs |-> nargs, children |-> children]

\* Call.func, Call.args, Call.keywords
CallFunc(node)     == node.children[1]
CallArgs(node)     == SubSeq(node.children, 2, 1 + node.nargs)
CallKeywords(node) == SubSeq(node.children, 2 + node.nargs, Len(node.children))

\* ASTSecurityAnalyzer._get_code_snippet (context = 2)
get_code_snippet(source_lines, line_no) ==
  LET start == Max(0, line_no - 2 - 1)
      end   == Min(Len(source_lines), line_no + 2)
  IN  JoinLines([k \in 1..Max(0, end - start) |->
        (IF start + k - 1 = line_no - 1 THEN ">>> " ELSE "    ")
           \o source_lines[start + k]])

\* ASTSecurityAnalyzer._get_function_name
get_function_name(node) ==
  IF node.kind = "Name" THEN node.name
  ELSE IF node.kind = "Attribute" THEN node.name
  ELSE "None"

vulnerable_packages ==
  << [module |-> "pickle", severity |-> "HIGH", cwe |-> "CWE-502",
      description |-> "Pickle can execute arbitrary code during deserialization"],
     [module |-> "yaml", severity |-> "MEDIUM", cwe |-> "CWE-502",
      description |-> "Use yaml.safe_load() instead of yaml.load()"],
     [module |-> "xml.etree.ElementTree", severity |-> "MEDIUM", cwe |-> "CWE-611",
      description |-> "Vulnerable to XXE attacks, use defusedxml"],
     [module |-> "telnetlib", severity |-> "LOW", cwe |-> "CWE-319",
      description |-> "Telnet transmits data in plaintext"] >>

\* ASTSecurityAnalyzer._check_vulnerable_import
check_vulnerable_import(file_path, source_lines, module, line_no) ==
  Flatten([i \in 1..Len(vulnerable_packages) |->
    IF vulnerable_packages[i].module = module
    THEN << SecurityFinding(file_path, line_no, 0, "Vulnerable Import",
              "A06_VULNERABLE_COMPONENTS", vulnerable_packages[i].severity,
              "Import of potentially vulnerable module: " \o module \o ". "
                 \o vulnerable_packages[i].description,
              "Consider using a more secure alternative or ensure proper usage",
              get_code_snippet(source_lines, line_no),
              vulnerable_packages[i].cwe, 90) >>
    ELSE <<>>])

dangerous_functions ==
  << [name |-> "eval",       severity |-> "CRITICAL", owasp |-> "A03_INJECTION", cwe |-> "CWE-95"],
     [name |-> "exec",       severity |-> "CRITICAL", owasp |-> "A03_INJECTION", cwe |-> "CWE-95"],
     [name |-> "compile",    severity |-> "HIGH",     owasp |-> "A03_INJECTION", cwe |-> "CWE-94"],
     [name |-> "__import__", severity |-> "HIGH",     owasp |-> "A03_INJECTION", cwe |-> "CWE-470"],
     [name |-> "input",      severity |-> "LOW",      owasp |-> "A03_INJECTION", cwe |-> "CWE-20"] >>

\* ASTSecurityAnalyzer._check_dangerous_function
check_dangerous_function(file_path, source_lines, func_name, node) ==
  Flatten([i \in 1..Len(dangerous_functions) |->
    IF dangerous_functions[i].name = func_name
    THEN << SecurityFinding(file_path, node.lineno, node.col_offset, "Dangerous Function",
              dangerous_functions[i].owasp, dangerous_functions[i].severity,
              "Use of dangerous function '" \o func_name
                 \o "' that can execute arbitrary code",
              "Avoid using " \o func_name \o ". Find a safer alternative",
              get_code_snippet(source_lines, node.lineno),
              dangerous_functions[i].cwe, 100) >>
    ELSE <<>>])

\* ASTSecurityAnalyzer._check_sql_injection: the shape of the first argument.
check_sql_injection(file_path, source_lines, node) ==
  IF CallArgs(node) = <<>> THEN <<>>
  ELSE LET first_arg == CallArgs(node)[1]
       IN  IF first_arg.kind = "BinOp" /\ first_arg.name = "Mod"
           THEN << SecurityFinding(file_path, node.lineno, node.col_offset, "SQL Injection",
                     "A03_INJECTION", "CRITICAL",
                     "SQL query uses string formatting which is vulnerable to injection",
                     "Use parameterized queries with placeholders (?, %s, $1)",
                     get_code_snippet(source_lines, node.lineno), "CWE-89", 95) >>
           ELSE IF first_arg.kind = "JoinedStr"
           THEN << SecurityFinding(file_path, node.lineno, node.col_offset, "SQL Injection",
                     "A03_INJECTION", "CRITICAL",
                     "SQL query uses f-string formatting which is vulnerable to injection",
                     "Never use f-strings for SQL. Use parameterized queries",
                     get_code_snippet(source_lines, node.lineno), "CWE-89", 100) >>
           ELSE <<>>

\* ASTSecurityAnalyzer._check_command_injection: one finding per shell=True.
check_command_injection(file_path, source_lines, node) ==
  LET keywords == CallKeywords(node)
  IN  Flatten([i \in 1..Len(keywords) |->
        IF /\ keywords[i].name = "shell"
           /\ keywords[i].children[1].kind = "Constant"
           /\ keywords[i].children[1].name = "True"
        THEN << SecurityFinding(file_path, node.lineno, node.col_offset, "Command Injection",
                  "A03_INJECTION", "HIGH",
                  "Using shell=True in subprocess is vulnerable to command injection",
                  "Use shell=False and pass arguments as a list",
                  get_code_snippet(source_lines, node.lineno), "CWE-78", 90) >>
        ELSE <<>>])

\* ASTSecurityAnalyzer._check_path_traversal
check_path_traversal(file_path, source_lines, node) ==
  IF CallArgs(node) # <<>> /\ CallArgs(node)[1].kind = "Name"
  THEN << SecurityFinding(file_path, node.lineno, node.col_offset, "Path Traversal",
            "A01_BROKEN_ACCESS_CONTROL", "MEDIUM",
            "File operation with potentially user-controlled path",
            "Validate and sanitize file paths. Use os.path.join() and check against allowed directories",
            get_code_snippet(source_lines, node.lineno), "CWE-22", 70) >>
  ELSE <<>>

\* ASTSecurityAnalyzer._check_ssrf
check_ssrf(file_path, source_lines, node) ==
  IF CallArgs(node) # <<>> /\ CallArgs(node)[1].kind \in {"Name", "JoinedStr"}
  THEN << SecurityFinding(file_path, node.lineno, node.col_offset, "SSRF",
            "A10_SSRF", "MEDIUM",
            "HTTP request with potentially user-controlled URL",
            "Validate URLs against an allowlist. Prevent requests to internal networks",
            get_code_snippet(source_lines, node.lineno), "CWE-918", 60) >>
  ELSE <<>>

\* ASTSecurityAnalyzer._check_format_string_injection (node: a FormattedValue)
check_format_string_injection(file_path, source_lines, node, line_no) ==
  IF node.children[1].kind = "Name"
  THEN << SecurityFinding(file_path, line_no, 0, "Format String Injection",
            "A03_INJECTION", "LOW",
            "F-string with potentially user-controlled value",
            "Ensure user input is properly validated before formatting",
            get_code_snippet(source_lines, line_no), "CWE-134", 50) >>
  ELSE <<>>

\* ASTSecurityAnalyzer.visit_Call, before its generic_visit
visit_Call(file_path, source_lines, node) ==
  LET func_name == get_function_name(CallFunc(node))
  IN  IF func_name = "None" THEN <<>>
      ELSE check_dangerous_function(file_path, source_lines, func_name, node)
           \o (IF func_name \in {"execute", "executemany", "raw", "query"}
               THEN check_sql_injection(file_path, source_lines, node) ELSE <<>>)
           \o (IF func_name \in {"system", "popen", "call", "run", "exec", "eval"}
               THEN check_command_injection(file_path, source_lines, node) ELSE <<>>)
           \o (IF func_name \in {"open", "read", "write", "readfile", "writefile"}
               THEN check_path_traversal(file_path, source_lines, node) ELSE <<>>)
           \o (IF func_name \in {"get", "post", "put", "delete", "request", "urlopen"}
               THEN check_ssrf(file_path, source_lines, node) ELSE <<>>)

\* ASTSecurityAnalyzer.visit_Import, before its generic_visit
visit_Import(file_path, source_lines, node) ==
  Flatten([i \in 1..Len(node.children) |->
    check_vulnerable_import(file_path, source_lines, node.children[i].name, node.lineno)])

\* ASTSecurityAnalyzer.visit_ImportFrom, before its generic_visit
visit_ImportFrom(file_path, source_lines, node) ==
  IF node.name # ""
  THEN check_vulnerable_import(file_path, source_lines, node.name, node.lineno)
  ELSE <<>>

\* ASTSecurityAnalyzer.visit_JoinedStr, before its generic_visit
visit_JoinedStr(file_path, source_lines, node) ==
  Flatten([i \in 1..Len(node.children) |->
    IF node.children[i].kind = "FormattedValue"
    THEN check_format_string_injection(file_path, source_lines, node.children[i], node.lineno)
    ELSE <<>>])

\* ast.NodeVisitor.visit on the analyzer: the node's own visit_<kind>, then
\* generic_visit over the children, in order.  The result is analyzer.findings.
\* (visit_BinOp only fills string_operations, which nothing reads.)
RECURSIVE visit(_, _, _)
visit(file_path, source_lines, node) ==
  (CASE node.kind = "Import"     -> visit_Import(file_path, source_lines, node)
     [] node.kind = "ImportFrom" -> visit_ImportFrom(file_path, source_lines, node)
     [] node.kind = "Call"       -> visit_Call(file_path, source_lines, node)
     [] node.kind = "JoinedStr"  -> visit_JoinedStr(file_path, source_lines, node)
     [] OTHER                    -> <<>>)
  \o Flatten([i \in 1..Len(node.children) |->
                visit(file_path, source_lines, node.children[i])])

\* analyzer.imports after the visit
RECURSIVE imports(_)
imports(node) ==
  (CASE node.kind = "Import" -> {node.children[i].name : i \in 1..Len(node.children)}
     [] node.kind = "ImportFrom" /\ node.name # "" -> {node.name}
     [] OTHER -> {})
  \cup UNION {imports(node.children[i]) : i \in 1..Len(node.children)}

\* Sum of a sequence of integers.
RECURSIVE Sum(_)
Sum(xs) == IF xs = <<>> THEN 0 ELSE Head(xs) + Sum(Tail(xs))

\* The complexity loop counting each boolean chain once, however many operands
\* it has.
RECURSIVE complexity_per_chain(_)
complexity_per_chain(node) ==
  (IF node.kind \in {"If", "While", "For", "ExceptHandler", "BoolOp"} THEN 1 ELSE 0)
  + Sum([i \in 1..Len(node.children) |-> complexity_per_chain(node.children[i])])

\* The cyclomatic-complexity loop of _calculate_python_metrics over ast.walk.
RECURSIVE complexity(_)
complexity(node) ==
  (IF node.kind \in {"If", "While", "For", "ExceptHandler"} THEN 1
   ELSE IF node.kind = "BoolOp" THEN Len(node.children) - 1
   ELSE 0)
  + Sum([i \in 1..Len(node.children) |-> complexity(node.children[i])])

\* CodeGuardian._calculate_python_metrics
calculate_python_metrics(tree, lines) ==
  LET stripped(n) == Strip(lines[n])
      blank   == Cardinality({n \in 1..Len(lines) : stripped(n) = ""})
      comment == Cardinality({n \in 1..Len(lines) :
                                stripped(n) # "" /\ StartsWith(stripped(n), "#")})
      code    == Cardinality({n \in 1..Len(lines) :
                                stripped(n) # "" /\ ~StartsWith(stripped(n), "#")})
      cc      == complexity(tree)
  IN  [CodeMetrics EXCEPT
         !.total_lines = Len(lines),
         !.blank_lines = blank,
         !.comment_lines = comment,
         !.code_lines = code,
         !.cyclomatic_complexity = cc,
         !.maintainability_index =
            IF code > 0 THEN Frac(Max(0, 171 * Max(1, code) - 52 * cc), Max(1, code))
            ELSE Frac(0, 1)]

\* ------------------------------------------------------------------------
\* Source files: the text as its lines, whether read_text can decode it, what
\* ast.parse does with it ("ok", "SyntaxError", or "RecursionError" for a text
\* nested too deeply for the parser) and, when it parses, its tree.
\* ------------------------------------------------------------------------

PyClean ==
  [decodes |-> TRUE, parse |-> "ok",
   lines |-> <<
      "# Test file 0",
      "print('hello')" >>,
   tree |->
     N("Module", 0, 0, "", 0, <<N("Expr", 2, 0, "", 0, <<N("Call", 2, 0, "", 1, <<N("Name", 2, 0, "print", 0, <<>>),
       N("Constant", 2, 6, "str", 0, <<>>)>>)>>)>>)]

PyEval ==
  [decodes |-> TRUE, parse |-> "ok",
   lines |-> <<
      "def insecure():",
      "    eval(input())  # Critical issue",
      "" >>,
   tree |->
     N("Module", 0, 0, "", 0, <<N("FunctionDef", 1, 0, "", 0, <<N("arguments", 0, 0, "", 0, <<>>), N("Expr", 2, 4, "", 0, <<N("Call", 2, 4, "", 1, <<N("Name", 2, 4, "eval", 0, <<>>),
       N("Call", 2, 9, "", 0, <<N("Name", 2, 9, "input", 0, <<>>)>>)>>)>>)>>)>>)]

PySqli ==
  [decodes |-> TRUE, parse |-> "ok",
   lines |-> <<
      "def get_user(user_id):",
      "    query = f\"SELECT * FROM users WHERE id = {user_id}\"",
      "    cursor.execute(query)",
      "" >>,
   tree |->
     N("Module", 0, 0, "", 0, <<N("FunctionDef", 1, 0, "", 0, <<N("arguments", 0, 0, "", 0, <<N("arg", 1, 13, "", 0, <<>>)>>),
       N("Assign", 2, 4, "", 0, <<N("Name", 2, 4, "query", 0, <<>>),
       N("JoinedStr", 2, 12, "", 0, <<N("Constant", 2, 12, "str", 0, <<>>),
       N("FormattedValue", 2, 12, "", 0, <<N("Name", 2, 46, "user_id", 0, <<>>)>>)>>)>>),
       N("Expr", 3, 4, "", 0, <<N("Call", 3, 4, "", 1, <<N("Attribute", 3, 4, "execute", 0, <<N("Name", 3, 4, "cursor", 0, <<>>)>>),
       N("Name", 3, 19, "query", 0, <<>>)>>)>>)>>)>>)]

PySecret ==
  [decodes |-> TRUE, parse |-> "ok",
   lines |-> <<
      "API_KEY = \"sk-1234567890abcdef\"",
      "" >>,
   tree |->
     N("Module", 0, 0, "", 0, <<N("Assign", 1, 0, "", 0, <<N("Name", 1, 0, "API_KEY", 0, <<>>),
       N("Constant", 1, 10, "str", 0, <<>>)>>)>>)]

PyCrypto ==
  [decodes |-> TRUE, parse |-> "ok",
   lines |-> <<
      "import hashlib",
      "h = hashlib.md5(data)",
      "# Using SHA1 - also weak",
      "g = hashlib.sha1(data)",
      "" >>,
   tree |->
     N("Module", 0, 0, "", 0, <<N("Import", 1, 0, "", 0, <<N("alias", 1, 7, "hashlib", 0, <<>>)>>), N("Assign", 2, 0, "", 0, <<N("Name", 2, 0, "h", 0, <<>>),
       N("Call", 2, 4, "", 1, <<N("Attribute", 2, 4, "md5", 0, <<N("Name", 2, 4, "hashlib", 0, <<>>)>>),
       N("Name", 2, 16, "data", 0, <<>>)>>)>>),
       N("Assign", 4, 0, "", 0, <<N("Name", 4, 0, "g", 0, <<>>),
       N("Call", 4, 4, "", 1, <<N("Attribute", 4, 4, "sha1", 0, <<N("Name", 4, 4, "hashlib", 0, <<>>)>>),
       N("Name", 4, 17, "data", 0, <<>>)>>)>>)>>)]

PyBroken ==
  [decodes |-> TRUE, parse |-> "SyntaxError",
   lines |-> <<
      "import pickle",
      "PASSWORD = \"admin123\"",
      "def (",
      "" >>,
   tree |->
     N("Module", 0, 0, "", 0, <<>>)]

PyBranchy ==
  [decodes |-> TRUE, parse |-> "ok",
   lines |-> <<
      "import pickle",
      "if x > 0 and y > 0:",
      "    f = open(name)",
      "else:",
      "    for i in y:",
      "        print(i)",
      "" >>,
   tree |->
     N("Module", 0, 0, "", 0, <<N("Import", 1, 0, "", 0, <<N("alias", 1, 7, "pickle", 0, <<>>)>>), N("If", 2, 0, "", 0, <<N("BoolOp", 2, 3, "", 0, <<N("Compare", 2, 3, "", 0, <<N("Name", 2, 3, "x", 0, <<>>),
       N("Constant", 2, 7, "int", 0, <<>>)>>),
       N("Compare", 2, 13, "", 0, <<N("Name", 2, 13, "y", 0, <<>>),
       N("Constant", 2, 17, "int", 0, <<>>)>>)>>),
       N("Assign", 3, 4, "", 0, <<N("Name", 3, 4, "f", 0, <<>>),
       N("Call", 3, 8, "", 1, <<N("Name", 3, 8, "open", 0, <<>>),
       N("Name", 3, 13, "name", 0, <<>>)>>)>>),
       N("For", 5, 4, "", 0, <<N("Name", 5, 8, "i", 0, <<>>), N("Name", 5, 13, "y", 0, <<>>),
       N("Expr", 6, 8, "", 0, <<N("Call", 6, 8, "", 1, <<N("Name", 6, 8, "print", 0, <<>>),
       N("Name", 6, 14, "i", 0, <<>>)>>)>>)>>)>>)>>)]

JsVuln ==
  [decodes |-> TRUE, parse |-> "SyntaxError",
   lines |-> <<
      "eval(input);",
      "var password = \"hunter2\";",
      "console.log(password);",
      "" >>,
   tree |->
     N("Module", 0, 0, "", 0, <<>>)]

JsClean ==
  [decodes |-> TRUE, parse |-> "SyntaxError",
   lines |-> <<
      "// nothing here",
      "let x = 1;",
      "" >>,
   tree |->
     N("Module", 0, 0, "", 0, <<>>)]

TsStorage ==
  [decodes |-> TRUE, parse |-> "SyntaxError",
   lines |-> <<
      "const t = localStorage.getItem(k);",
      "el.innerHTML = t;" >>,
   tree |->
     N("Module", 0, 0, "", 0, <<>>)]

\* Ten calls of compile and then one of eval.
PyMany ==
  [decodes |-> TRUE, parse |-> "ok",
   lines |-> <<
      "compile(s)",
      "compile(s)",
      "compile(s)",
      "compile(s)",
      "compile(s)",
      "compile(s)",
      "compile(s)",
      "compile(s)",
      "compile(s)",
      "compile(s)",
      "eval(s)" >>,
   tree |->
     N("Module", 0, 0, "", 0, <<N("Expr", 1, 0, "", 0, <<N("Call", 1, 0, "", 1, <<N("Name", 1, 0, "compile", 0, <<>>), N("Name", 1, 8, "s", 0, <<>>)>>)>>), N("Expr", 2, 0, "", 0, <<N("Call", 2, 0, "", 1, <<N("Name", 2, 0, "compile", 0, <<>>), N("Name", 2, 8, "s", 0, <<>>)>>)>>), N("Expr", 3, 0, "", 0, <<N("Call", 3, 0, "", 1, <<N("Name", 3, 0, "compile", 0, <<>>), N("Name", 3, 8, "s", 0, <<>>)>>)>>), N("Expr", 4, 0, "", 0, <<N("Call", 4, 0, "", 1, <<N("Name", 4, 0, "compile", 0, <<>>), N("Name", 4, 8, "s", 0, <<>>)>>)>>), N("Expr", 5, 0, "", 0, <<N("Call", 5, 0, "", 1, <<N("Name", 5, 0, "compile", 0, <<>>), N("Name", 5, 8, "s", 0, <<>>)>>)>>), N("Expr", 6, 0, "", 0, <<N("Call", 6, 0, "", 1, <<N("Name", 6, 0, "compile", 0, <<>>), N("Name", 6, 8, "s", 0, <<>>)>>)>>), N("Expr", 7, 0, "", 0, <<N("Call", 7, 0, "", 1, <<N("Name", 7, 0, "compile", 0, <<>>), N("Name", 7, 8, "s", 0, <<>>)>>)>>), N("Expr", 8, 0, "", 0, <<N("Call", 8, 0, "", 1, <<N("Name", 8, 0, "compile", 0, <<>>), N("Name", 8, 8, "s", 0, <<>>)>>)>>), N("Expr", 9, 0, "", 0, <<N("Call", 9, 0, "", 1, <<N("Name", 9, 0, "compile", 0, <<>>), N("Name", 9, 8, "s", 0, <<>>)>>)>>), N("Expr", 10, 0, "", 0, <<N("Call", 10, 0, "", 1, <<N("Name", 10, 0, "compile", 0, <<>>), N("Name", 10, 8, "s", 0, <<>>)>>)>>), N("Expr", 11, 0, "", 0, <<N("Call", 11, 0, "", 1, <<N("Name", 11, 0, "eval", 0, <<>>), N("Name", 11, 5, "s", 0, <<>>)>>)>>)>>)]

\* One import statement of fifty-one modules.
PyImports ==
  [decodes |-> TRUE, parse |-> "ok",
   lines |-> <<
      "import m01, m02, m03, m04, m05, m06, m07, m08, m09, m10, m11, m12, m13, m14, m15, m16, m17, m18, m19, m20, m21, m22, m23, m24, m25, m26, m27, m28, m29, m30, m31, m32, m33, m34, m35, m36, m37, m38, m39, m40, m41, m42, m43, m44, m45, m46, m47, m48, m49, m50, m51" >>,
   tree |->
     N("Module", 0, 0, "", 0, <<N("Import", 1, 0, "", 0, <<N("alias", 1, 7, "m01", 0, <<>>), N("alias", 1, 12, "m02", 0, <<>>), N("alias", 1, 17, "m03", 0, <<>>), N("alias", 1, 22, "m04", 0, <<>>), N("alias", 1, 27, "m05", 0, <<>>), N("alias", 1, 32, "m06", 0, <<>>), N("alias", 1, 37, "m07", 0, <<>>), N("alias", 1, 42, "m08", 0, <<>>), N("alias", 1, 47, "m09", 0, <<>>), N("alias", 1, 52, "m10", 0, <<>>), N("alias", 1, 57, "m11", 0, <<>>), N("alias", 1, 62, "m12", 0, <<>>), N("alias", 1, 67, "m13", 0, <<>>), N("alias", 1, 72, "m14", 0, <<>>), N("alias", 1, 77, "m15", 0, <<>>), N("alias", 1, 82, "m16", 0, <<>>), N("alias", 1, 87, "m17", 0, <<>>), N("alias", 1, 92, "m18", 0, <<>>), N("alias", 1, 97, "m19", 0, <<>>), N("alias", 1, 102, "m20", 0, <<>>), N("alias", 1, 107, "m21", 0, <<>>), N("alias", 1, 112, "m22", 0, <<>>), N("alias", 1, 117, "m23", 0, <<>>), N("alias", 1, 122, "m24", 0, <<>>), N("alias", 1, 127, "m25", 0, <<>>), N("alias", 1, 132, "m26", 0, <<>>), N("alias", 1, 137, "m27", 0, <<>>), N("alias", 1, 142, "m28", 0, <<>>), N("alias", 1, 147, "m29", 0, <<>>), N("alias", 1, 152, "m30", 0, <<>>), N("alias", 1, 157, "m31", 0, <<>>), N("alias", 1, 162, "m32", 0, <<>>), N("alias", 1, 167, "m33", 0, <<>>), N("alias", 1, 172, "m34", 0, <<>>), N("alias", 1, 177, "m35", 0, <<>>), N("alias", 1, 182, "m36", 0, <<>>), N("alias", 1, 187, "m37", 0, <<>>), N("alias", 1, 192, "m38", 0, <<>>), N("alias", 1, 197, "m39", 0, <<>>), N("alias", 1, 202, "m40", 0, <<>>), N("alias", 1, 207, "m41", 0, <<>>), N("alias", 1, 212, "m42", 0, <<>>), N("alias", 1, 217, "m43", 0, <<>>), N("alias", 1, 222, "m44", 0, <<>>), N("alias", 1, 227, "m45", 0, <<>>), N("alias", 1, 232, "m46", 0, <<>>), N("alias", 1, 237, "m47", 0, <<>>), N("alias", 1, 242, "m48", 0, <<>>), N("alias", 1, 247, "m49", 0, <<>>), N("alias", 1, 252, "m50", 0, <<>>), N("alias", 1, 257, "m51", 0, <<>>)>>)>>)]

\* A function with a dangerous call in its decorator and one in its body.
PyDecorated ==
  [decodes |-> TRUE, parse |-> "ok",
   lines |-> <<
      "@register(eval(name))",
      "def handler():",
      "    exec(body)",
      "" >>,
   tree |->
     N("Module", 0, 0, "", 0, <<N("FunctionDef", 2, 0, "", 0, <<N("arguments", 0, 0, "", 0, <<>>), N("Expr", 3, 4, "", 0, <<N("Call", 3, 4, "", 1, <<N("Name", 3, 4, "exec", 0, <<>>), N("Name", 3, 9, "body", 0, <<>>)>>)>>), N("Call", 1, 1, "", 1, <<N("Name", 1, 1, "register", 0, <<>>), N("Call", 1, 10, "", 1, <<N("Name", 1, 10, "eval", 0, <<>>), N("Name", 1, 15, "name", 0, <<>>)>>)>>)>>)>>)]

\* A query-execution call whose argument is an f-string, inside a function.
PyFstring ==
  [decodes |-> TRUE, parse |-> "ok",
   lines |-> <<
      "def get_user(uid):",
      "    cursor.execute(f\"SELECT * FROM users WHERE id = {uid}\")",
      "" >>,
   tree |->
     N("Module", 0, 0, "", 0, <<N("FunctionDef", 1, 0, "", 0, <<N("arguments", 0, 0, "", 0, <<N("arg", 1, 13, "", 0, <<>>)>>), N("Expr", 2, 4, "", 0, <<N("Call", 2, 4, "", 1, <<N("Attribute", 2, 4, "execute", 0, <<N("Name", 2, 4, "cursor", 0, <<>>)>>), N("JoinedStr", 2, 19, "", 0, <<N("Constant", 2, 19, "str", 0, <<>>), N("FormattedValue", 2, 19, "", 0, <<N("Name", 2, 53, "uid", 0, <<>>)>>)>>)>>)>>)>>)>>)]

\* One call of eval, with a keyword argument.
PyEvalShell ==
  [decodes |-> TRUE, parse |-> "ok",
   lines |-> <<
      "eval(cmd, shell=True)",
      "" >>,
   tree |->
     N("Module", 0, 0, "", 0, <<N("Expr", 1, 0, "", 0, <<N("Call", 1, 0, "", 1, <<N("Name", 1, 0, "eval", 0, <<>>), N("Name", 1, 5, "cmd", 0, <<>>), N("keyword", 1, 10, "shell", 0, <<N("Constant", 1, 16, "True", 0, <<>>)>>)>>)>>)>>)]

\* One call of exec on a name.
PyExec ==
  [decodes |-> TRUE, parse |-> "ok",
   lines |-> <<
      "exec(code)",
      "" >>,
   tree |->
     N("Module", 0, 0, "", 0, <<N("Expr", 1, 0, "", 0, <<N("Call", 1, 0, "", 1, <<N("Name", 1, 0, "exec", 0, <<>>), N("Name", 1, 5, "code", 0, <<>>)>>)>>)>>)]

\* hashlib.md5 and hashlib.sha1 on two lines, spelled as the hashlib API spells them.
PyHashlib ==
  [decodes |-> TRUE, parse |-> "ok",
   lines |-> <<
      "import hashlib",
      "h = hashlib.md5(data)",
      "g = hashlib.sha1(data)",
      "" >>,
   tree |->
     N("Module", 0, 0, "", 0, <<N("Import", 1, 0, "", 0, <<N("alias", 1, 7, "hashlib", 0, <<>>)>>), N("Assign", 2, 0, "", 0, <<N("Name", 2, 0, "h", 0, <<>>), N("Call", 2, 4, "", 1, <<N("Attribute", 2, 4, "md5", 0, <<N("Name", 2, 4, "hashlib", 0, <<>>)>>), N("Name", 2, 16, "data", 0, <<>>)>>)>>), N("Assign", 3, 0, "", 0, <<N("Name", 3, 0, "g", 0, <<>>), N("Call", 3, 4, "", 1, <<N("Attribute", 3, 4, "sha1", 0, <<N("Name", 3, 4, "hashlib", 0, <<>>)>>), N("Name", 3, 17, "data", 0, <<>>)>>)>>)>>)]

\* A file of one comment line and blank lines.
PyComments ==
  [decodes |-> TRUE, parse |-> "ok",
   lines |-> <<
      "# only a comment",
      "",
      "" >>,
   tree |->
     N("Module", 0, 0, "", 0, <<>>)]

\* Every kind of decision point: try/except, if/elif, a boolean chain of three, while, for.
PyControl ==
  [decodes |-> TRUE, parse |-> "ok",
   lines |-> <<
      "try:",
      "    if a and b and c:",
      "        x = 1",
      "    elif d:",
      "        while e:",
      "            x = 2",
      "except ValueError:",
      "    for i in y:",
      "        x = 3",
      "" >>,
   tree |->
     N("Module", 0, 0, "", 0, <<N("Try", 1, 0, "", 0, <<N("If", 2, 4, "", 0, <<N("BoolOp", 2, 7, "", 0, <<N("Name", 2, 7, "a", 0, <<>>), N("Name", 2, 13, "b", 0, <<>>), N("Name", 2, 19, "c", 0, <<>>)>>), N("Assign", 3, 8, "", 0, <<N("Name", 3, 8, "x", 0, <<>>), N("Constant", 3, 12, "int", 0, <<>>)>>), N("If", 4, 4, "", 0, <<N("Name", 4, 9, "d", 0, <<>>), N("While", 5, 8, "", 0, <<N("Name", 5, 14, "e", 0, <<>>), N("Assign", 6, 12, "", 0, <<N("Name", 6, 12, "x", 0, <<>>), N("Constant", 6, 16, "int", 0, <<>>)>>)>>)>>)>>), N("ExceptHandler", 7, 0, "", 0, <<N("Name", 7, 7, "ValueError", 0, <<>>), N("For", 8, 4, "", 0, <<N("Name", 8, 8, "i", 0, <<>>), N("Name", 8, 13, "y", 0, <<>>), N("Assign", 9, 8, "", 0, <<N("Name", 9, 8, "x", 0, <<>>), N("Constant", 9, 12, "int", 0, <<>>)>>)>>)>>)>>)>>)]

\* The four weak algorithm names, two of them on more than one line.
PyWeak ==
  [decodes |-> TRUE, parse |-> "ok",
   lines |-> <<
      "# MD5 and DES",
      "h = MD5.new(data)",
      "k = DES.new(key) + RC4(key)",
      "s = SHA1(data)",
      "t = SHA1(data)",
      "" >>,
   tree |->
     N("Module", 0, 0, "", 0, <<N("Assign", 2, 0, "", 0, <<N("Name", 2, 0, "h", 0, <<>>), N("Call", 2, 4, "", 1, <<N("Attribute", 2, 4, "new", 0, <<N("Name", 2, 4, "MD5", 0, <<>>)>>), N("Name", 2, 12, "data", 0, <<>>)>>)>>), N("Assign", 3, 0, "", 0, <<N("Name", 3, 0, "k", 0, <<>>), N("BinOp", 3, 4, "Add", 0, <<N("Call", 3, 4, "", 1, <<N("Attribute", 3, 4, "new", 0, <<N("Name", 3, 4, "DES", 0, <<>>)>>), N("Name", 3, 12, "key", 0, <<>>)>>), N("Call", 3, 19, "", 1, <<N("Name", 3, 19, "RC4", 0, <<>>), N("Name", 3, 23, "key", 0, <<>>)>>)>>)>>), N("Assign", 4, 0, "", 0, <<N("Name", 4, 0, "s", 0, <<>>), N("Call", 4, 4, "", 1, <<N("Name", 4, 4, "SHA1", 0, <<>>), N("Name", 4, 9, "data", 0, <<>>)>>)>>), N("Assign", 5, 0, "", 0, <<N("Name", 5, 0, "t", 0, <<>>), N("Call", 5, 4, "", 1, <<N("Name", 5, 4, "SHA1", 0, <<>>), N("Name", 5, 9, "data", 0, <<>>)>>)>>)>>)]

\* A .py file that is not valid UTF-8: read_text raises UnicodeDecodeError.
PyBinary ==
  [decodes |-> FALSE, parse |-> "SyntaxError", lines |-> <<>>,
   tree |-> N("Module", 0, 0, "", 0, <<>>)]

\* A .py file nested too deeply: ast.parse raises RecursionError.
PyDeep ==
  [decodes |-> TRUE, parse |-> "RecursionError",
   lines |-> << "x = " \o "-----------------------------------------" \o "1" >>,
   tree |-> N("Module", 0, 0, "", 0, <<>>)]

\* A file of an unsupported type.
Notes ==
  [decodes |-> TRUE, parse |-> "SyntaxError",
   lines |-> << "password = \"in a text file\"" >>,
   tree |-> N("Module", 0, 0, "", 0, <<>>)]

\* The content a file-system entry names.
Source(name) ==
  CASE name = "PyClean"   -> PyClean
    [] name = "PyEval"    -> PyEval
    [] name = "PySqli"    -> PySqli
    [] name = "PySecret"  -> PySecret
    [] name = "PyCrypto"  -> PyCrypto
    [] name = "PyBroken"  -> PyBroken
    [] name = "PyBranchy" -> PyBranchy
    [] name = "PyBinary"  -> PyBinary
    [] name = "PyDeep"    -> PyDeep
    [] name = "JsVuln"    -> JsVuln
    [] name = "JsClean"   -> JsClean
    [] name = "TsStorage" -> TsStorage
    [] name = "Notes"     -> Notes
    [] name = "PyMany"    -> PyMany
    [] name = "PyImports" -> PyImports
    [] name = "PyDecorated" -> PyDecorated
    [] name = "PyFstring" -> PyFstring
    [] name = "PyEvalShell" -> PyEvalShell
    [] name = "PyExec" -> PyExec
    [] name = "PyHashlib" -> PyHashlib
    [] name = "PyComments" -> PyComments
    [] name = "PyControl" -> PyControl
    [] name = "PyWeak" -> PyWeak

\* ------------------------------------------------------------------------
\* CodeGuardian: the per-file analysis
\* ------------------------------------------------------------------------

\* What a call did: raised is "None" or the exception's class.
Returned(findings, metrics) ==
  [raised |-> "None", findings |-> findings, metrics |-> metrics]
Raised(exception) ==
  [raised |-> exception, findings |-> <<>>, metrics |-> CodeMetrics]

\* CodeGuardian._analyze_python: a SyntaxError is caught and leaves the empty
\* findings and default metrics; any other exception propagates.
analyze_python(file_path, src) ==
  IF src.parse = "ok"
  THEN Returned(visit(file_path, src.lines, src.tree)
                  \o check_hardcoded_secrets(src.lines, file_path)
                  \o check_weak_crypto(src.lines, file_path)
                  \o check_logging_issues(src.lines, file_path),
                [calculate_python_metrics(src.tree, src.lines)
                   EXCEPT !.dependencies = imports(src.tree)])
  ELSE IF src.parse = "SyntaxError"
  THEN Returned(<<>>, CodeMetrics)
  ELSE Raised(src.parse)

\* The regex table of _analyze_javascript (alternatives of one pattern as a set).
javascript_patterns ==
  << [res |-> {Lit("eval", FALSE) \o <<Star(Whitespace), One({"("})>>},
      vuln_type |-> "Eval Usage", severity |-> "HIGH", owasp |-> "A03_INJECTION"],
     [res |-> {Lit("innerHTML", FALSE) \o <<Star(Whitespace), One({"="})>>},
      vuln_type |-> "innerHTML Usage", severity |-> "MEDIUM", owasp |-> "A03_INJECTION"],
     [res |-> {Lit("document.write", FALSE) \o <<Star(Whitespace), One({"("})>>},
      vuln_type |-> "document.write Usage", severity |-> "LOW", owasp |-> "A03_INJECTION"],
     [res |-> {Lit("localStorage.", FALSE), Lit("sessionStorage.", FALSE)},
      vuln_type |-> "Client Storage", severity |-> "LOW",
      owasp |-> "A02_CRYPTOGRAPHIC_FAILURES"] >>

\* CodeGuardian._analyze_javascript
analyze_javascript(file_path, src) ==
  LET lines == src.lines
  IN  Returned(
        Flatten([line_no \in 1..Len(lines) |->
          Flatten([p \in 1..Len(javascript_patterns) |->
            IF \E re \in javascript_patterns[p].res : Search(re, lines[line_no])
            THEN << SecurityFinding(file_path, line_no, 0,
                      javascript_patterns[p].vuln_type, javascript_patterns[p].owasp,
                      javascript_patterns[p].severity,
                      "Potential security issue: " \o javascript_patterns[p].vuln_type,
                      "Review and ensure secure usage",
                      Strip(lines[line_no]), "None", DefaultConfidence) >>
            ELSE <<>>])]),
        [CodeMetrics EXCEPT
           !.total_lines = Len(lines),
           !.code_lines = Cardinality({n \in 1..Len(lines) :
                             Strip(lines[n]) # "" /\ ~StartsWith(Strip(lines[n]), "//")})])

\* ------------------------------------------------------------------------
\* Paths and the file tree
\* ------------------------------------------------------------------------

\* A path is the sequence of its components below the workspace root.
Workspace == "/ws"

\* str(path)
RECURSIVE PathStr(_)
PathStr(path) ==
  IF path = <<>> THEN Workspace
  ELSE PathStr(SubSeq(path, 1, Len(path) - 1)) \o "/" \o path[Len(path)]

\* PurePath.suffix: from the last dot of the last component, unless that dot
\* is its first or its last character.
suffix(path) ==
  LET name == path[Len(path)]
      dots == {i \in 1..Len(name) : Char(name, i) = "."}
  IN  IF dots = {} THEN ""
      ELSE LET i == CHOOSE d \in dots : \A e \in dots : d >= e
           IN  IF 1 < i /\ i < Len(name) THEN SubSeq(name, i, Len(name)) ELSE ""

\* The directories of the tree (they always exist) and one that never does.
Directories == { <<>>, <<"sub">> }
MissingDir  == <<"nope">>

\* The entries a directory can hold, and what each may be: "absent", "dir" (a
\* directory of that name) or the name of a source.
Entries ==
  { <<"a.py">>, <<"sub", "b.py">>, <<"sub", "d.py">>, <<"sub", "c.js">>,
    <<"sub", "notes.txt">> }

Choices(path) ==
  CASE path = <<"a.py">>             -> {"PyClean", "PyEval"}
    [] path = <<"sub", "b.py">>      -> {"PyClean", "PyBroken", "PyBinary"}
    [] path = <<"sub", "d.py">>      -> {"PyBranchy", "PyDeep", "dir"}
    [] path = <<"sub", "c.js">>      -> {"JsVuln"}
    [] path = <<"sub", "notes.txt">> -> {"Notes"}
    [] OTHER                         -> {"absent"}

\* What each entry may be in the trees that hold the sample sources: one
\* Python file and one JavaScript file below sub/, a clean file in the root.
Samples(path) ==
  CASE path = <<"a.py">>        -> {"PyClean"}
    [] path = <<"sub", "b.py">> -> {"PyClean", "PySqli", "PySecret", "PyCrypto", "PyMany",
                                    "PyImports", "PyDecorated", "PyFstring", "PyEvalShell",
                                    "PyExec", "PyHashlib", "PyComments", "PyControl",
                                    "PyWeak"}
    [] path = <<"sub", "c.js">> -> {"JsClean", "JsVuln"}
    [] OTHER                    -> {"absent"}

\* A path that names nothing.
Ghost == <<"sub", "ghost.py">>

\* Path.exists, Path.is_file
exists(tree, path) ==
  \/ path \in Directories
  \/ path \in Entries /\ tree[path] # "absent"
is_file(tree, path) ==
  path \in Entries /\ tree[path] \notin {"absent", "dir"}

\* fnmatch of one component against "*" or "*<tail>"
fnmatch(name, pat) ==
  Char(pat, 1) = "*" /\ EndsWith(name, SubSeq(pat, 2, Len(pat)))

\* rel matches the glob pattern pat (both as component sequences): "**" stands
\* for any number of directories, every other component for exactly one name.
RECURSIVE GlobMatch(_, _)
GlobMatch(pat, rel) ==
  IF pat = <<>> THEN rel = <<>>
  ELSE IF Head(pat) = "**"
  THEN \E k \in 0..Len(rel) : GlobMatch(Tail(pat), SubSeq(rel, k + 1, Len(rel)))
  ELSE rel # <<>> /\ fnmatch(Head(rel), Head(pat)) /\ GlobMatch(Tail(pat), Tail(rel))

\* set(directory.glob(pat)): the existing paths below directory that match.
glob(tree, directory, pat) ==
  { path \in Entries :
      /\ exists(tree, path)
      /\ Len(path) > Len(directory)
      /\ SubSeq(path, 1, Len(directory)) = directory
      /\ GlobMatch(pat, SubSeq(path, Len(directory) + 1, Len(path))) }

\* The pattern scan_directory hands to glob for one of its file patterns:
\* f"{pattern}/{pattern_str}" with pattern = '**/*' when recursive, else
\* pattern_str alone.
GlobPattern(recursive, pattern_str) ==
  IF recursive THEN <<"**", "*", pattern_str>> ELSE <<pattern_str>>

patterns == <<"*.py", "*.js", "*.ts", "*.jsx", "*.tsx">>

\* All orders in which a set can be listed.
RECURSIVE Orders(_)
Orders(S) ==
  IF S = {} THEN {<<>>}
  ELSE UNION {{<<e>> \o rest : rest \in Orders(S \ {e})} : e \in S}

\* The sequences of paths the two nested loops of scan_directory can run
\* through: pattern by pattern, each glob in whatever order the OS lists it.
RECURSIVE Enumerations(_, _, _, _)
Enumerations(tree, directory, recursive, i) ==
  IF i > Len(patterns) THEN {<<>>}
  ELSE { first \o rest :
           first \in Orders(glob(tree, directory, GlobPattern(recursive, patterns[i]))),
           rest \in Enumerations(tree, directory, recursive, i + 1) }

\* ------------------------------------------------------------------------
\* CodeGuardian.scan_file as a function of the tree and the caches
\* ------------------------------------------------------------------------

SupportedSuffixes == {".py", ".js", ".ts", ".jsx", ".tsx"}

\* What scan_file returns or raises for a path holding content ("absent",
\* "dir" or the name of a source), before it touches the caches.
scan_file_body(file_path, content) ==
  IF content = "absent" THEN Raised("FileNotFoundError")
  ELSE IF suffix(file_path) \notin SupportedSuffixes THEN Returned(<<>>, CodeMetrics)
  ELSE IF content = "dir" THEN Raised("IsADirectoryError")
  ELSE IF ~Source(content).decodes THEN Raised("UnicodeDecodeError")
  ELSE IF suffix(file_path) = ".py"
  THEN analyze_python(PathStr(file_path), Source(content))
  ELSE analyze_javascript(PathStr(file_path), Source(content))

\* scan_file_body over every path and content of the model, evaluated once.
FileOutcomes ==
  [file_path \in Entries \cup {Ghost} |->
     [content \in Choices(file_path) \cup Samples(file_path) |->
        scan_file_body(file_path, content)]]

\* What scan_file returns or raises in a tree.
scan_file_outcome(tree, file_path) ==
  FileOutcomes[file_path][IF file_path \in Entries THEN tree[file_path] ELSE "absent"]

\* scan_file storing whatever it returns, the empty result of an unsupported
\* file type included.
scan_file_caches_all(file_path, out) ==
  out.raised = "None"

\* scan_file stores its result only when it got as far as "Cache results".
scan_file_caches(file_path, out) ==
  /\ suffix(file_path) \in SupportedSuffixes
  /\ out.raised = "None"

\* d[key] = value on a dict kept as a function
DictSet(d, key, value) ==
  [k \in DOMAIN d \cup {key} |-> IF k = key THEN value ELSE d[k]]

\* scan_file extending the cached finding list of the path instead of starting
\* from an empty one: a second scan returns the first scan's findings as well.
scan_file_extending(tree, vdb, mc, file_path) ==
  LET finish(out) ==
        IF scan_file_caches(file_path, out)
        THEN [out |-> out,
              vdb |-> DictSet(vdb, PathStr(file_path), out.findings),
              mc  |-> DictSet(mc, PathStr(file_path), out.metrics)]
        ELSE [out |-> out, vdb |-> vdb, mc |-> mc]
      extend(out) ==
        IF out.raised = "None" /\ PathStr(file_path) \in DOMAIN vdb
        THEN [out EXCEPT !.findings = vdb[PathStr(file_path)] \o @]
        ELSE out
  IN  finish(extend(scan_file_outcome(tree, file_path)))

\* scan_file answering from its caches when the path is already in them,
\* without reading the file again.
scan_file_memo(tree, vdb, mc, file_path) ==
  LET finish(out) ==
        IF PathStr(file_path) \in DOMAIN vdb /\ out.raised = "None"
        THEN [out |-> Returned(vdb[PathStr(file_path)], mc[PathStr(file_path)]),
              vdb |-> vdb, mc |-> mc]
        ELSE IF scan_file_caches(file_path, out)
        THEN [out |-> out,
              vdb |-> DictSet(vdb, PathStr(file_path), out.findings),
              mc  |-> DictSet(mc, PathStr(file_path), out.metrics)]
        ELSE [out |-> out, vdb |-> vdb, mc |-> mc]
  IN  finish(scan_file_outcome(tree, file_path))

\* scan_file on a CodeGuardian whose caches are vdb and mc: the outcome and the
\* caches afterwards.
scan_file(tree, vdb, mc, file_path) ==
  LET finish(out) ==
        IF scan_file_caches(file_path, out)
        THEN [out |-> out,
              vdb |-> DictSet(vdb, PathStr(file_path), out.findings),
              mc  |-> DictSet(mc, PathStr(file_path), out.metrics)]
        ELSE [out |-> out, vdb |-> vdb, mc |-> mc]
  IN  finish(scan_file_outcome(tree, file_path))

\* ------------------------------------------------------------------------
\* CodeGuardian.scan_directory
\* ------------------------------------------------------------------------

\* self.power_cost = 0.008
power_cost == Frac(8, 1000)

\* The loops without the try/except around scan_file's call site covering the
\* rest of the run: the first scan_file that raises ends the enumeration.
RECURSIVE scan_loop_abort(_, _, _, _)
scan_loop_abort(tree, order, i, acc) ==
  IF i > Len(order) THEN acc
  ELSE LET step(r) ==
             IF r.out.raised # "None" THEN acc
             ELSE scan_loop_abort(tree, order, i + 1,
               [files_scanned      |-> acc.files_scanned + 1,
                total_findings     |-> acc.total_findings \o r.out.findings,
                aggregated_metrics |->
                  [acc.aggregated_metrics EXCEPT
                     !.total_lines   = @ + r.out.metrics.total_lines,
                     !.code_lines    = @ + r.out.metrics.code_lines,
                     !.comment_lines = @ + r.out.metrics.comment_lines,
                     !.dependencies  = @ \cup r.out.metrics.dependencies],
                vdb |-> r.vdb,
                mc  |-> r.mc])
       IN  IF is_file(tree, order[i])
           THEN step(scan_file(tree, acc.vdb, acc.mc, order[i]))
           ELSE scan_loop_abort(tree, order, i + 1, acc)

\* The loops with the dependencies assigned instead of merged: each file's
\* set replaces the aggregate's.
RECURSIVE scan_loop_assign(_, _, _, _)
scan_loop_assign(tree, order, i, acc) ==
  IF i > Len(order) THEN acc
  ELSE LET step(r) ==
             IF r.out.raised # "None" THEN acc
             ELSE [files_scanned      |-> acc.files_scanned + 1,
                total_findings     |-> acc.total_findings \o r.out.findings,
                aggregated_metrics |->
                  [acc.aggregated_metrics EXCEPT
                     !.total_lines   = @ + r.out.metrics.total_lines,
                     !.code_lines    = @ + r.out.metrics.code_lines,
                     !.comment_lines = @ + r.out.metrics.comment_lines,
                     !.dependencies  = r.out.metrics.dependencies],
                vdb |-> r.vdb,
                mc  |-> r.mc]
       IN  scan_loop_assign(tree, order, i + 1,
             IF is_file(tree, order[i])
             THEN step(scan_file(tree, acc.vdb, acc.mc, order[i]))
             ELSE acc)

\* The body of the two nested loops for the paths order[i..]: acc holds the
\* locals files_scanned, total_findings, aggregated_metrics and the caches.
\* A path that is no regular file is passed over; a scan_file that raises is
\* logged and adds nothing.
RECURSIVE scan_loop(_, _, _, _)
scan_loop(tree, order, i, acc) ==
  IF i > Len(order) THEN acc
  ELSE LET step(r) ==
             IF r.out.raised # "None" THEN acc
             ELSE [files_scanned      |-> acc.files_scanned + 1,
                total_findings     |-> acc.total_findings \o r.out.findings,
                aggregated_metrics |->
                  [acc.aggregated_metrics EXCEPT
                     !.total_lines   = @ + r.out.metrics.total_lines,
                     !.code_lines    = @ + r.out.metrics.code_lines,
                     !.comment_lines = @ + r.out.metrics.comment_lines,
                     !.dependencies  = @ \cup r.out.metrics.dependencies],
                vdb |-> r.vdb,
                mc  |-> r.mc]
       IN  scan_loop(tree, order, i + 1,
             IF is_file(tree, order[i])
             THEN step(scan_file(tree, acc.vdb, acc.mc, order[i]))
             ELSE acc)

\* The locals of scan_directory with an aggregate that starts from a full
\* test coverage instead of the default 0.
scan_start_covered(vdb, mc) ==
  [files_scanned |-> 0, total_findings |-> <<>>,
   aggregated_metrics |-> [CodeMetrics EXCEPT !.test_coverage = 100],
   vdb |-> vdb, mc |-> mc]

\* The locals of scan_directory when its loops start.
scan_start(vdb, mc) ==
  [files_scanned |-> 0, total_findings |-> <<>>, aggregated_metrics |-> CodeMetrics,
   vdb |-> vdb, mc |-> mc]

\* severity_dist with each finding's severity compared to the level's value
\* instead of the level: an enum member never equals a string.
severity_distribution_by_value(total_findings) ==
  [v \in {LevelValue(VulnerabilityLevel[i]) : i \in 1..Len(VulnerabilityLevel)} |->
     Cardinality({k \in 1..Len(total_findings) : total_findings[k].severity = v})]

\* severity_dist: one key per level, counted over the whole finding list.
severity_distribution(total_findings) ==
  [v \in {LevelValue(VulnerabilityLevel[i]) : i \in 1..Len(VulnerabilityLevel)} |->
     Cardinality({k \in 1..Len(total_findings) :
                    LevelValue(total_findings[k].severity) = v})]

\* owasp_dist with each list replaced by its length: only the categories found.
owasp_distribution(total_findings) ==
  [c \in {OWASPValue(total_findings[k].owasp_category) : k \in 1..Len(total_findings)} |->
     Cardinality({k \in 1..Len(total_findings) :
                    OWASPValue(total_findings[k].owasp_category) = c})]

\* The scan_result dict built from the locals after the loops.
scan_result(now, directory, acc) ==
  [timestamp             |-> now,
   directory             |-> PathStr(directory),
   files_scanned         |-> acc.files_scanned,
   total_findings        |-> Len(acc.total_findings),
   severity_distribution |-> severity_distribution(acc.total_findings),
   owasp_distribution    |-> owasp_distribution(acc.total_findings),
   findings              |-> [k \in 1..Len(acc.total_findings) |->
                                to_dict(acc.total_findings[k])],
   metrics               |->
     [total_lines  |-> acc.aggregated_metrics.total_lines,
      code_lines   |-> acc.aggregated_metrics.code_lines,
      dependencies |-> acc.aggregated_metrics.dependencies,
      health_score |-> calculate_health_score(acc.aggregated_metrics)],
   power_consumed        |-> Frac(power_cost.num * acc.files_scanned, power_cost.den * 100)]

\* dict.get with the default 1 instead of 0: a key that is missing counts.
GetOrOne(d, key) == IF key \in DOMAIN d THEN d[key] ELSE 1

\* dict.get(key, 0)
Get(d, key) == IF key \in DOMAIN d THEN d[key] ELSE 0

\* ------------------------------------------------------------------------
\* CodeGuardian.get_recommendations (the texts without their emoji)
\* ------------------------------------------------------------------------

\* The sentence generate_report returns for an empty history, which is no
\* recommendation.
RecNoScans     == "No scans performed yet."

RecInitialScan == "Perform initial security scan"
RecCritical    == "URGENT: Address all CRITICAL vulnerabilities immediately"
RecHigh        == "HIGH PRIORITY: Fix HIGH severity issues within 24 hours"
RecInjection   == "Implement parameterized queries for all database operations"
RecAccess      == "Review and strengthen access control mechanisms"
RecCrypto      == "Upgrade to strong cryptographic algorithms (AES-256, SHA-256)"
RecHealth      == "Improve code quality - current health score below 70"
RecDependencies == "Review dependencies - consider reducing external packages"
RecVigilance   == "No critical issues detected. Maintain vigilance."

get_recommendations(history) ==
  IF history = <<>> THEN <<RecInitialScan>>
  ELSE LET latest == history[Len(history)]
           owasp_dist == latest.owasp_distribution
           recommendations ==
                (IF Get(latest.severity_distribution, "critical") > 0
                 THEN <<RecCritical>> ELSE <<>>)
             \o (IF Get(latest.severity_distribution, "high") > 0
                 THEN <<RecHigh>> ELSE <<>>)
             \o (IF Get(owasp_dist, "Injection") > 0 THEN <<RecInjection>> ELSE <<>>)
             \o (IF Get(owasp_dist, "Broken Access Control") > 0
                 THEN <<RecAccess>> ELSE <<>>)
             \o (IF Get(owasp_dist, "Cryptographic Failures") > 0
                 THEN <<RecCrypto>> ELSE <<>>)
             \o (IF FracLess(latest.metrics.health_score, 70)
                 THEN <<RecHealth>> ELSE <<>>)
             \o (IF Cardinality(latest.metrics.dependencies) > 50
                 THEN <<RecDependencies>> ELSE <<>>)
       IN  IF recommendations # <<>> THEN recommendations ELSE <<RecVigilance>>

\* ------------------------------------------------------------------------
\* CodeGuardian.generate_report
\* ------------------------------------------------------------------------

\* critical_findings[:10] and '█' * min(count, 50)
ReportLimit == 10
BarLimit    == 50

\* f"{x:.1f}" and f"{x:.3f}" of a fraction: the number of tenths, of
\* thousandths, it is rounded to.
Tenths(x)      == (20 * x.num + x.den) \div (2 * x.den)
Thousandths(x) == (2000 * x.num + x.den) \div (2 * x.den)

\* The keys of a dict filled while looping over the findings, in the order
\* the loop first met them (dict.items() lists them so).
RECURSIVE FirstSeen(_, _)
FirstSeen(keys, seen) ==
  IF keys = <<>> THEN <<>>
  ELSE IF Head(keys) \in seen THEN FirstSeen(Tail(keys), seen)
  ELSE <<Head(keys)>> \o FirstSeen(Tail(keys), seen \cup {Head(keys)})

\* generate_report reading the first ScanResult of the history instead of the
\* last.
generate_report_first(history) ==
  IF history = <<>> THEN [text |-> "No scans performed yet."]
  ELSE LET latest_scan == history[1]
           levels == <<"critical", "high", "medium", "low", "info">>
           critical_findings ==
             SelectSeq(latest_scan.findings,
                       LAMBDA f : f.severity \in {"critical", "high"})
           categories ==
             FirstSeen([k \in 1..Len(latest_scan.findings) |->
                          latest_scan.findings[k].owasp], {})
       IN  [generated      |-> latest_scan.timestamp,
            directory      |-> latest_scan.directory,
            files_scanned  |-> latest_scan.files_scanned,
            total_findings |-> latest_scan.total_findings,
            health_score   |-> Tenths(latest_scan.metrics.health_score),
            power_consumed |-> Thousandths(latest_scan.power_consumed),
            severity       |->
              [i \in 1..Len(levels) |->
                 [level |-> Upper(levels[i]),
                  count |-> Get(latest_scan.severity_distribution, levels[i]),
                  bar   |-> Min(Get(latest_scan.severity_distribution, levels[i]),
                                BarLimit)]],
            owasp          |->
              [i \in 1..Len(categories) |->
                 [category |-> categories[i],
                  count    |-> latest_scan.owasp_distribution[categories[i]]]],
            detailed       |->
              [k \in 1..Min(Len(critical_findings), ReportLimit) |->
                 [file_path      |-> critical_findings[k].file_path,
                  location       |-> critical_findings[k].location,
                  type           |-> critical_findings[k].type,
                  owasp          |-> critical_findings[k].owasp,
                  severity       |-> Upper(critical_findings[k].severity),
                  description    |-> critical_findings[k].description,
                  recommendation |-> critical_findings[k].recommendation]],
            total_lines    |-> latest_scan.metrics.total_lines,
            code_lines     |-> latest_scan.metrics.code_lines,
            dependencies   |-> Cardinality(latest_scan.metrics.dependencies)]

\* CodeGuardian.generate_report() without an output path.  The report is kept
\* as the values its text is formatted from, section by section, without the
\* frames and headings: summary, severity lines, OWASP lines, the findings
\* listed in detail and the metrics.
generate_report(history) ==
  IF history = <<>> THEN [text |-> "No scans performed yet."]
  ELSE LET latest_scan == history[Len(history)]
           levels == <<"critical", "high", "medium", "low", "info">>
           critical_findings ==
             SelectSeq(latest_scan.findings,
                       LAMBDA f : f.severity \in {"critical", "high"})
           categories ==
             FirstSeen([k \in 1..Len(latest_scan.findings) |->
                          latest_scan.findings[k].owasp], {})
       IN  [generated      |-> latest_scan.timestamp,
            directory      |-> latest_scan.directory,
            files_scanned  |-> latest_scan.files_scanned,
            total_findings |-> latest_scan.total_findings,
            health_score   |-> Tenths(latest_scan.metrics.health_score),
            power_consumed |-> Thousandths(latest_scan.power_consumed),
            severity       |->
              [i \in 1..Len(levels) |->
                 [level |-> Upper(levels[i]),
                  count |-> Get(latest_scan.severity_distribution, levels[i]),
                  bar   |-> Min(Get(latest_scan.severity_distribution, levels[i]),
                                BarLimit)]],
            owasp          |->
              [i \in 1..Len(categories) |->
                 [category |-> categories[i],
                  count    |-> latest_scan.owasp_distribution[categories[i]]]],
            detailed       |->
              [k \in 1..Min(Len(critical_findings), ReportLimit) |->
                 [file_path      |-> critical_findings[k].file_path,
                  location       |-> critical_findings[k].location,
                  type           |-> critical_findings[k].type,
                  owasp          |-> critical_findings[k].owasp,
                  severity       |-> Upper(critical_findings[k].severity),
                  description    |-> critical_findings[k].description,
                  recommendation |-> critical_findings[k].recommendation]],
            total_lines    |-> latest_scan.metrics.total_lines,
            code_lines     |-> latest_scan.metrics.code_lines,
            dependencies   |-> Cardinality(latest_scan.metrics.dependencies)]

\* ------------------------------------------------------------------------
\* The state machine: one CodeGuardian over one file tree
\* ------------------------------------------------------------------------

\* How many directory scans and how many file writes a run holds.
MaxScans     == 2
MaxFileScans == 1
MaxWrites    == 1

VARIABLES
  fs,                      \* the file tree: entry -> "absent", "dir" or a source
  scan_history,            \* self.scan_history
  vulnerability_database,  \* self.vulnerability_database
  metrics_cache,           \* self.metrics_cache
  clock,                   \* what datetime.now() will return
  writes,                  \* file writes so far
  file_scans,              \* direct scan_file calls so far
  ret                      \* the last call: what it was given and what it did

vars == <<fs, scan_history, vulnerability_database, metrics_cache, clock, writes,
          file_scans, ret>>

\* CodeGuardian.__init__, over any file tree.
Init ==
  /\ fs \in {t \in [Entries -> {"absent", "dir", "PyClean", "PyEval", "PyBroken",
                                "PyBinary", "PyBranchy", "PyDeep", "JsVuln", "Notes"}] :
               \A e \in Entries : t[e] \in Choices(e)}
  /\ scan_history = <<>>
  /\ vulnerability_database = <<>>
  /\ metrics_cache = <<>>
  /\ clock = 1
  /\ writes = 0
  /\ file_scans = 0
  /\ ret = [op |-> "init", raised |-> "None"]

\* guardian.scan_file(file_path)
ScanFile(file_path) ==
  LET Finish(r) ==
        /\ file_scans' = file_scans + 1
        /\ vulnerability_database' = r.vdb
        /\ metrics_cache' = r.mc
        /\ ret' = [op |-> "scan_file", file_path |-> file_path,
                   raised |-> r.out.raised,
                   findings |-> r.out.findings, metrics |-> r.out.metrics]
        /\ UNCHANGED <<fs, scan_history, clock, writes>>
  IN  /\ file_scans < MaxFileScans
      /\ Finish(scan_file(fs, vulnerability_database, metrics_cache, file_path))

\* scan_directory without its check of the root: a missing root globs to
\* nothing and is recorded as a scan of no files.
ScanDirectoryUnchecked(directory, recursive) ==
  /\ Len(scan_history) < MaxScans
  /\ \E order \in Enumerations(fs, directory, recursive, 1) :
       LET Return(acc, result) ==
             /\ scan_history' = Append(scan_history, result)
             /\ vulnerability_database' = acc.vdb
             /\ metrics_cache' = acc.mc
             /\ clock' = clock + 1
             /\ ret' = [op |-> "scan_directory", directory |-> directory,
                        recursive |-> recursive, raised |-> "None",
                        order |-> order, result |-> result]
             /\ UNCHANGED <<fs, writes, file_scans>>
           Finish(acc) == Return(acc, scan_result(clock, directory, acc))
       IN  Finish(scan_loop(fs, order, 1,
                            scan_start(vulnerability_database, metrics_cache)))

\* scan_directory assigning the history instead of appending to it: only the
\* latest ScanResult is kept.
ScanDirectoryKeepLatest(directory, recursive) ==
  IF ~exists(fs, directory)
  THEN /\ ret' = [op |-> "scan_directory", directory |-> directory,
                  recursive |-> recursive, raised |-> "FileNotFoundError"]
       /\ UNCHANGED <<fs, scan_history, vulnerability_database, metrics_cache, clock,
                      writes, file_scans>>
  ELSE /\ Len(scan_history) < MaxScans
       /\ \E order \in Enumerations(fs, directory, recursive, 1) :
            LET Return(acc, result) ==
                  /\ scan_history' = <<result>>
                  /\ vulnerability_database' = acc.vdb
                  /\ metrics_cache' = acc.mc
                  /\ clock' = clock + 1
                  /\ ret' = [op |-> "scan_directory", directory |-> directory,
                             recursive |-> recursive, raised |-> "None",
                             order |-> order, result |-> result]
                  /\ UNCHANGED <<fs, writes, file_scans>>
                Finish(acc) == Return(acc, scan_result(clock, directory, acc))
            IN  Finish(scan_loop(fs, order, 1,
                                 scan_start(vulnerability_database, metrics_cache)))

\* guardian.scan_directory(directory, recursive)
ScanDirectory(directory, recursive) ==
  IF ~exists(fs, directory)
  THEN /\ ret' = [op |-> "scan_directory", directory |-> directory,
                  recursive |-> recursive, raised |-> "FileNotFoundError"]
       /\ UNCHANGED <<fs, scan_history, vulnerability_database, metrics_cache, clock,
                      writes, file_scans>>
  ELSE /\ Len(scan_history) < MaxScans
       /\ \E order \in Enumerations(fs, directory, recursive, 1) :
            LET Return(acc, result) ==
                  /\ scan_history' = Append(scan_history, result)
                  /\ vulnerability_database' = acc.vdb
                  /\ metrics_cache' = acc.mc
                  /\ clock' = clock + 1
                  /\ ret' = [op |-> "scan_directory", directory |-> directory,
                             recursive |-> recursive, raised |-> "None",
                             order |-> order, result |-> result]
                  /\ UNCHANGED <<fs, writes, file_scans>>
                Finish(acc) == Return(acc, scan_result(clock, directory, acc))
            IN  Finish(scan_loop(fs, order, 1,
                                 scan_start(vulnerability_database, metrics_cache)))

\* guardian.get_recommendations()
GetRecommendations ==
  /\ ret' = [op |-> "get_recommendations", raised |-> "None",
             recommendations |-> get_recommendations(scan_history)]
  /\ UNCHANGED <<fs, scan_history, vulnerability_database, metrics_cache, clock,
                 writes, file_scans>>

\* The directories scan_directory is called on.
ScanRoots == {<<>>, MissingDir}

\* The file somebody keeps editing between the calls.
Edited == <<"sub", "b.py">>

\* Somebody replaces the content of that file.
WriteFile(path, content) ==
  /\ writes < MaxWrites
  /\ path = Edited
  /\ content \in Choices(path)
  /\ content # fs[path]
  /\ fs' = [fs EXCEPT ![path] = content]
  /\ writes' = writes + 1
  /\ ret' = [op |-> "write_file", raised |-> "None"]
  /\ UNCHANGED <<scan_history, vulnerability_database, metrics_cache, clock, file_scans>>

Next ==
  \/ \E file_path \in Entries \cup {Ghost} : ScanFile(file_path)
  \/ \E directory \in ScanRoots, recursive \in BOOLEAN :
       ScanDirectory(directory, recursive)
  \/ GetRecommendations
  \/ \E path \in Entries, content \in {"absent", "dir", "PyClean", "PyEval", "PyBroken",
                                       "PyBinary", "PyBranchy", "PyDeep", "JsVuln", "Notes"} :
       WriteFile(path, content)

Spec == Init /\ [][Next]_vars

\* ------------------------------------------------------------------------
\* The same CodeGuardian over the trees of sample sources, with its reports
\* ------------------------------------------------------------------------

\* guardian.generate_report()
GenerateReport ==
  /\ ret' = [op |-> "generate_report", raised |-> "None",
             report |-> generate_report(scan_history)]
  /\ UNCHANGED <<fs, scan_history, vulnerability_database, metrics_cache, clock,
                 writes, file_scans>>

\* CodeGuardian.__init__, over any tree of sample sources.
InitSamples ==
  /\ fs \in {[e \in Entries |->
               IF e = <<"sub", "b.py">> THEN py
               ELSE IF e = <<"sub", "c.js">> THEN js
               ELSE CHOOSE only \in Samples(e) : TRUE] :
             py \in Samples(<<"sub", "b.py">>), js \in Samples(<<"sub", "c.js">>)}
  /\ scan_history = <<>>
  /\ vulnerability_database = <<>>
  /\ metrics_cache = <<>>
  /\ clock = 1
  /\ writes = 0
  /\ file_scans = 0
  /\ ret = [op |-> "init", raised |-> "None"]

NextSamples ==
  \/ \E file_path \in Entries \cup {Ghost} : ScanFile(file_path)
  \/ \E directory \in ScanRoots, recursive \in BOOLEAN :
       ScanDirectory(directory, recursive)
  \/ GetRecommendations
  \/ GenerateReport

SpecSamples == InitSamples /\ [][NextSamples]_vars

\* ------------------------------------------------------------------------
\* CodeMetrics values and their health score
\* ------------------------------------------------------------------------

\* The values the fields read by calculate_health_score are drawn from: the
\* index as the analysis computes it or as a caller sets it, the coverage as a
\* percentage that a caller may overstate, the debt in hours of either sign.
MaintainabilityIndexes == {Frac(0, 1), Frac(119, 1), Frac(171, 1), Frac(171, 2)}
Complexities           == {0, 7, 50, 60}
Coverages              == {0, 50, 100, 150}
DebtHours              == {-10, 0, 10, 30}

\* CodeMetrics(maintainability_index=..., cyclomatic_complexity=...,
\* test_coverage=..., technical_debt_hours=...) on an idle CodeGuardian.
InitMetrics ==
  /\ fs = [e \in Entries |-> "absent"]
  /\ scan_history = <<>>
  /\ vulnerability_database = <<>>
  /\ metrics_cache = <<>>
  /\ clock = 1
  /\ writes = 0
  /\ file_scans = 0
  /\ ret \in {[op |-> "CodeMetrics", raised |-> "None",
               metrics |-> [CodeMetrics EXCEPT
                              !.maintainability_index = mi,
                              !.cyclomatic_complexity = cc,
                              !.test_coverage = tc,
                              !.technical_debt_hours = td]] :
              mi \in MaintainabilityIndexes, cc \in Complexities,
              tc \in Coverages, td \in DebtHours}

\* metrics.calculate_health_score()
CalculateHealthScore ==
  /\ ret.op = "CodeMetrics"
  /\ ret' = [op |-> "calculate_health_score", raised |-> "None",
             metrics |-> ret.metrics, score |-> calculate_health_score(ret.metrics)]
  /\ UNCHANGED <<fs, scan_history, vulnerability_database, metrics_cache, clock,
                 writes, file_scans>>

NextMetrics == CalculateHealthScore

SpecMetrics == InitMetrics /\ [][NextMetrics]_vars

\* ------------------------------------------------------------------------
\* Properties
\* ------------------------------------------------------------------------

\* The last call was a scan_directory that returned a ScanResult.  (The tree
\* is still the one it scanned: a write resets ret.)
Scanned == ret.op = "scan_directory" /\ ret.raised = "None"

\* Sum of the values of a dict.
RECURSIVE SumValues(_)
SumValues(d) ==
  IF DOMAIN d = {} THEN 0
  ELSE LET k == CHOOSE key \in DOMAIN d : TRUE
       IN  d[k] + SumValues([j \in DOMAIN d \ {k} |-> d[j]])

\* The paths of a sequence, as a set.
Range(seq) == {seq[i] : i \in 1..Len(seq)}

\* The regular files the last directory scan enumerated, and those among them
\* on which scan_file returned.
EnumeratedFiles == {p \in Range(ret.order) : is_file(fs, p)}
ScannedFiles    == {p \in EnumeratedFiles : scan_file_outcome(fs, p).raised = "None"}
FailedFiles     == EnumeratedFiles \ ScannedFiles

\* C1: in every ScanResult the counts of severity_distribution add up to
\* total_findings, which is the length of findings, and the counts of
\* owasp_distribution add up to the same number.
C1_DistributionsAddUp ==
  \A i \in 1..Len(scan_history) :
    LET r == scan_history[i]
    IN  /\ SumValues(r.severity_distribution) = r.total_findings
        /\ r.total_findings = Len(r.findings)
        /\ SumValues(r.owasp_distribution) = r.total_findings

\* C1's case: a second scan on the same guardian, after a first one with
\* findings, itself with findings of several severities and categories.
C1_Witness ==
  /\ Len(scan_history) = 2
  /\ scan_history[1].total_findings > 0
  /\ scan_history[2].total_findings >= 3
  /\ Cardinality(DOMAIN scan_history[2].owasp_distribution) >= 2
  /\ Cardinality({v \in DOMAIN scan_history[2].severity_distribution :
                    scan_history[2].severity_distribution[v] > 0}) >= 2

\* The regular files of a supported type anywhere below a directory.
SupportedFilesUnder(tree, directory) ==
  { p \in Entries :
      /\ is_file(tree, p)
      /\ Len(p) > Len(directory)
      /\ SubSeq(p, 1, Len(directory)) = directory
      /\ suffix(p) \in SupportedSuffixes }

\* C2: a recursive scan_directory scans every supported regular file below the
\* root, those directly in it included, each exactly once.
C2_RecursiveScanCoversEveryFile ==
  (Scanned /\ ret.recursive) =>
    /\ \A p \in SupportedFilesUnder(fs, ret.directory) :
         Cardinality({i \in 1..Len(ret.order) : ret.order[i] = p}) = 1
    /\ ret.result.files_scanned
         = Cardinality({p \in SupportedFilesUnder(fs, ret.directory) :
                          scan_file_outcome(fs, p).raised = "None"})

\* C3: scan_directory on a root that does not exist raises, returns no
\* ScanResult and leaves scan_history and both caches as they were.
C3_MissingRootFailsFast ==
  [][\A directory \in ScanRoots, recursive \in BOOLEAN :
       (ScanDirectory(directory, recursive) /\ ~exists(fs, directory)) =>
         /\ ret'.raised = "FileNotFoundError"
         /\ "result" \notin DOMAIN ret'
         /\ UNCHANGED <<scan_history, vulnerability_database, metrics_cache>>]_vars

\* C3's case: the failed call came after scans had filled the history and the
\* caches.
C3_Witness ==
  /\ ret.op = "scan_directory"
  /\ ret.raised = "FileNotFoundError"
  /\ scan_history # <<>>
  /\ DOMAIN vulnerability_database # {}

\* The findings the files of a sequence return, file by file, as dicts.
RECURSIVE FindingsOf(_)
FindingsOf(order) ==
  IF order = <<>> THEN <<>>
  ELSE (IF Head(order) \in ScannedFiles
        THEN LET fnd == scan_file_outcome(fs, Head(order)).findings
             IN  [k \in 1..Len(fnd) |-> to_dict(fnd[k])]
        ELSE <<>>)
       \o FindingsOf(Tail(order))

\* C4: when scan_file raises on an enumerated file, the directory scan still
\* returns a ScanResult; the failed file adds no findings, lines or
\* dependencies, and every other file adds what its own scan_file returns,
\* before and after the failed one.
C4_FailedFileIsSkipped ==
  (ret.op = "scan_directory" /\ exists(fs, ret.directory)) =>
    /\ ret.raised = "None"
    /\ FailedFiles # {} =>
         /\ ret.result.findings = FindingsOf(ret.order)
         /\ ret.result.files_scanned = Cardinality(ScannedFiles)
         /\ ret.result.metrics.total_lines
              = SumValues([p \in ScannedFiles |-> scan_file_outcome(fs, p).metrics.total_lines])
         /\ ret.result.metrics.code_lines
              = SumValues([p \in ScannedFiles |-> scan_file_outcome(fs, p).metrics.code_lines])
         /\ ret.result.metrics.dependencies
              = UNION {scan_file_outcome(fs, p).metrics.dependencies : p \in ScannedFiles}

\* C4's case: scan_file raised on the first .py file listed, and a file with
\* findings came after it.
C4_Witness ==
  /\ Scanned
  /\ Len(ret.order) >= 2
  /\ ret.order[1] \in FailedFiles
  /\ ret.order[2] \in ScannedFiles
  /\ scan_file_outcome(fs, ret.order[2]).findings # <<>>
  /\ ret.result.total_findings > 0

\* The enumerated files that hit a recoverable error: scan_file raised, or the
\* Python source did not parse.
RecoverableErrors ==
  FailedFiles \cup
  {p \in ScannedFiles : suffix(p) = ".py" /\ Source(fs[p]).parse = "SyntaxError"}

\* C5: when a discovered file hits a recoverable error, files_scanned is
\* strictly lower than the number of files discovered.
C5_FilesScannedLowerOnError ==
  (Scanned /\ RecoverableErrors # {}) =>
    ret.result.files_scanned < Cardinality(EnumeratedFiles)

\* The findings of the three textual checks on a file's raw text.
TextualFindings(file_path) ==
  LET lines == Source(fs[file_path]).lines
  IN  check_hardcoded_secrets(lines, PathStr(file_path))
        \o check_weak_crypto(lines, PathStr(file_path))
        \o check_logging_issues(lines, PathStr(file_path))

\* C6: for a .py file that does not parse, scan_file returns the textual
\* findings of its source.
C6_ParseFailureFallsBackToTextual ==
  (/\ ret.op = "scan_file"
   /\ ret.raised = "None"
   /\ is_file(fs, ret.file_path)
   /\ suffix(ret.file_path) = ".py"
   /\ Source(fs[ret.file_path]).parse = "SyntaxError") =>
    ret.findings = TextualFindings(ret.file_path)

\* C7: for every supported file, scan_file's findings include every finding
\* of the three textual checks on its raw text.
C7_TextualChecksAlwaysRun ==
  (/\ ret.op = "scan_file"
   /\ ret.raised = "None"
   /\ is_file(fs, ret.file_path)
   /\ suffix(ret.file_path) \in SupportedSuffixes) =>
    Range(TextualFindings(ret.file_path)) \subseteq Range(ret.findings)

\* C8: the total_lines and code_lines of a ScanResult are the sums over the
\* files scan_file returned on in that scan, its dependencies their union;
\* earlier scans leave nothing behind.
C8_MetricsAreAdditive ==
  Scanned =>
    /\ ret.result.metrics.total_lines
         = SumValues([p \in ScannedFiles |-> scan_file_outcome(fs, p).metrics.total_lines])
    /\ ret.result.metrics.code_lines
         = SumValues([p \in ScannedFiles |-> scan_file_outcome(fs, p).metrics.code_lines])
    /\ ret.result.metrics.dependencies
         = UNION {scan_file_outcome(fs, p).metrics.dependencies : p \in ScannedFiles}

\* C8's case: a second scan, of several files, after a first one that counted
\* lines and dependencies the second does not have.
C8_Witness ==
  /\ Scanned
  /\ Len(scan_history) = 2
  /\ Cardinality(ScannedFiles) >= 2
  /\ ret.result.metrics.dependencies # {}
  /\ scan_history[1].metrics.total_lines > 0
  /\ scan_history[1].metrics.total_lines # scan_history[2].metrics.total_lines
  /\ scan_history[1].metrics.dependencies # scan_history[2].metrics.dependencies

\* Equality of two fractions.
FracEq(a, b) == a.num * b.den = b.num * a.den

\* The metrics of the aggregate as the summed counts give them: complexity and
\* code lines summed over the scanned files, the maintainability index worked
\* out from those sums.
SummedMetrics ==
  LET cc == SumValues([p \in ScannedFiles |-> scan_file_outcome(fs, p).metrics.cyclomatic_complexity])
      cl == SumValues([p \in ScannedFiles |-> scan_file_outcome(fs, p).metrics.code_lines])
  IN  [CodeMetrics EXCEPT
         !.code_lines = cl,
         !.cyclomatic_complexity = cc,
         !.maintainability_index = Frac(Max(0, 171 * Max(1, cl) - 52 * cc), Max(1, cl))]

\* C9: the health_score of a ScanResult is the health score of the aggregate
\* recomputed from the summed complexity and code lines.
C9_HealthFromSummedCounts ==
  Scanned =>
    FracEq(ret.result.metrics.health_score, calculate_health_score(SummedMetrics))

\* C10: after a directory scan without findings, get_recommendations returns
\* the single "no critical issues" recommendation.
C10_CleanScanOnlyVigilance ==
  (/\ ret.op = "get_recommendations"
   /\ scan_history # <<>>
   /\ scan_history[Len(scan_history)].total_findings = 0) =>
    ret.recommendations = <<RecVigilance>>

\* The last call was a get_recommendations, and what it read: the latest
\* ScanResult.
Recommended == ret.op = "get_recommendations"
Latest      == scan_history[Len(scan_history)]

\* A finding of the latest ScanResult has this severity, this OWASP category.
LatestHasSeverity(value) ==
  \E k \in 1..Len(Latest.findings) : Latest.findings[k].severity = value
LatestHasCategory(value) ==
  \E k \in 1..Len(Latest.findings) : Latest.findings[k].owasp = value

\* The decision table, in priority order: each rule's text and whether its
\* condition holds for the latest ScanResult.
RuleTable ==
  << [text |-> "URGENT: Address all CRITICAL vulnerabilities immediately",
      fires |-> LatestHasSeverity("critical")],
     [text |-> "HIGH PRIORITY: Fix HIGH severity issues within 24 hours",
      fires |-> LatestHasSeverity("high")],
     [text |-> "Implement parameterized queries for all database operations",
      fires |-> LatestHasCategory("Injection")],
     [text |-> "Review and strengthen access control mechanisms",
      fires |-> LatestHasCategory("Broken Access Control")],
     [text |-> "Upgrade to strong cryptographic algorithms (AES-256, SHA-256)",
      fires |-> LatestHasCategory("Cryptographic Failures")],
     [text |-> "Improve code quality - current health score below 70",
      fires |-> FracLess(Latest.metrics.health_score, 70)],
     [text |-> "Review dependencies - consider reducing external packages",
      fires |-> Cardinality(Latest.metrics.dependencies) > 50] >>

\* C11: after at least one scan, get_recommendations holds a rule's
\* recommendation exactly when the rule's condition holds for the latest
\* ScanResult, each at most once and in the table's order; with a CRITICAL
\* finding the URGENT recommendation comes first.
C11_RecommendationsFollowTheTable ==
  (Recommended /\ scan_history # <<>>) =>
    LET recs == ret.recommendations
    IN  /\ \A r \in 1..Len(RuleTable) :
             RuleTable[r].fires <=> (\E i \in 1..Len(recs) : recs[i] = RuleTable[r].text)
        /\ \A i, j \in 1..Len(recs) : i < j => recs[i] # recs[j]
        /\ \A i, j \in 1..Len(recs) :
             i < j => \A r, q \in 1..Len(RuleTable) :
                        (recs[i] = RuleTable[r].text /\ recs[j] = RuleTable[q].text) => r < q
        /\ LatestHasSeverity("critical") => recs[1] = RuleTable[1].text

\* C11's case: recommendations asked for after a second scan whose findings
\* include a CRITICAL one after HIGH ones.
C11_Witness ==
  /\ Recommended
  /\ Len(scan_history) = 2
  /\ LatestHasSeverity("critical")
  /\ LatestHasSeverity("high")
  /\ Len(ret.recommendations) >= 4

\* The scan_directory calls that returned so far: each reads the clock once,
\* when it builds its ScanResult.
CompletedScans == clock - 1

\* C12: while no scan_directory call has returned, whatever scan_file calls
\* and scan_directory calls on a missing root came before, get_recommendations
\* returns the single recommendation to perform an initial scan.
C12_NoScanYetOnlyInitialScan ==
  (Recommended /\ CompletedScans = 0) =>
    ret.recommendations = <<"Perform initial security scan">>

\* C12's case: recommendations asked for before any directory scan, after a
\* scan_file that found something and filled the caches.
C12_Witness ==
  /\ Recommended
  /\ CompletedScans = 0
  /\ file_scans > 0
  /\ \E key \in DOMAIN vulnerability_database : vulnerability_database[key] # <<>>

\* C13: a scan_directory call that returns appends the ScanResult it returns
\* to scan_history and leaves the earlier entries as they were; no other call
\* (scan_file, generate_report, get_recommendations, scan_directory on a
\* missing root) changes scan_history; so its length is the number of
\* directory scans that returned.
C13_HistoryIsAppendOnly ==
  [][ /\ IF ret'.op = "scan_directory" /\ ret'.raised = "None"
         THEN scan_history' = Append(scan_history, ret'.result)
         ELSE scan_history' = scan_history
      /\ Len(scan_history') = clock' - 1 ]_vars

\* C13's case: a report generated after two directory scans and a scan_file.
C13_Witness ==
  /\ ret.op = "generate_report"
  /\ Len(scan_history) = 2
  /\ scan_history[1].timestamp < scan_history[2].timestamp
  /\ file_scans > 0

\* The last call was a generate_report on a guardian that has scanned.
Reported == ret.op = "generate_report" /\ scan_history # <<>>

\* What the report shows of a finding in its detailed list.
Detail(f) ==
  [file_path |-> f.file_path, location |-> f.location, type |-> f.type,
   owasp |-> f.owasp, severity |-> Upper(f.severity), description |-> f.description,
   recommendation |-> f.recommendation]

\* The findings of a ScanResult from the most severe level down, those of one
\* level in their original order.
BySeverity(findings) ==
  LET levels == <<"critical", "high", "medium", "low", "info">>
  IN  Flatten([i \in 1..Len(levels) |->
                 SelectSeq(findings, LAMBDA f : f.severity = levels[i])])

\* C14: the detailed list of generate_report holds the ten highest-severity
\* findings of the latest ScanResult (all of them when there are fewer), ties
\* decided by the original order, so that no finding left out is more severe
\* than one that is shown.
C14_ReportShowsTenMostSevere ==
  Reported =>
    LET top == BySeverity(Latest.findings)
        n   == Min(Len(top), 10)
    IN  /\ Len(ret.report.detailed) = n
        /\ Range(ret.report.detailed) = {Detail(top[k]) : k \in 1..n}

\* C15: a scan_file of a file that was scanned before (by scan_file or within
\* a directory scan, whose results the caches still hold) and that nobody has
\* modified returns the same findings and the same metrics as that earlier
\* scan, whatever was scanned in between.
C15_ScanFileIsIdempotent ==
  [][ (/\ ret'.op = "scan_file"
       /\ ret'.raised = "None"
       /\ writes = 0
       /\ PathStr(ret'.file_path) \in DOMAIN vulnerability_database)
      => (/\ ret'.findings = vulnerability_database[PathStr(ret'.file_path)]
          /\ ret'.metrics = metrics_cache[PathStr(ret'.file_path)]) ]_vars

\* C15's case: a scan_file that returns findings for an unmodified file which
\* the first of two earlier directory scans had scanned.
C15_Witness ==
  /\ ret.op = "scan_file"
  /\ ret.raised = "None"
  /\ ret.findings # <<>>
  /\ writes = 0
  /\ Len(scan_history) = 2
  /\ \E k \in 1..Len(scan_history[1].findings) :
       scan_history[1].findings[k].file_path = PathStr(ret.file_path)

\* C16: the metrics scan_file returns for a file of any supported type count
\* every line once: total_lines = code_lines + comment_lines + blank_lines.
C16_LineCountsAddUp ==
  (/\ ret.op = "scan_file"
   /\ ret.raised = "None"
   /\ suffix(ret.file_path) \in SupportedSuffixes)
  => ret.metrics.total_lines =
       ret.metrics.code_lines + ret.metrics.comment_lines + ret.metrics.blank_lines

\* The values of the five defined levels.
FiveLevels == {"critical", "high", "medium", "low", "info"}

\* C17: every finding of every ScanResult, whichever detector produced it, has
\* a confidence between 0 and 1 (0 to 100 hundredths) and one of the five
\* levels as its severity, and severity_distribution has exactly the five
\* levels as its keys; the findings scan_file returns are in the same ranges.
C17_ConfidenceAndSeverityInRange ==
  /\ \A i \in 1..Len(scan_history) :
       /\ DOMAIN scan_history[i].severity_distribution = FiveLevels
       /\ \A k \in 1..Len(scan_history[i].findings) :
            /\ scan_history[i].findings[k].confidence \in 0..100
            /\ scan_history[i].findings[k].severity \in FiveLevels
  /\ (ret.op = "scan_file" /\ ret.raised = "None") =>
       \A k \in 1..Len(ret.findings) :
         /\ ret.findings[k].confidence \in 0..100
         /\ ret.findings[k].severity \in Range(VulnerabilityLevel)

\* C17's case: a ScanResult with a finding of a JavaScript pattern, which has
\* the default confidence, and one of the secret check, which has 0.8.
C17_Witness ==
  \E i \in 1..Len(scan_history) :
    LET fs_i == scan_history[i].findings
    IN  /\ \E k \in 1..Len(fs_i) : fs_i[k].type = "Eval Usage"
        /\ \E k \in 1..Len(fs_i) : fs_i[k].type = "Hardcoded Secret" /\ fs_i[k].confidence = 80
        /\ \E k \in 1..Len(fs_i) : fs_i[k].confidence = 100

\* The findings the AST analyzer emitted for the Python file the last
\* scan_file call returned from: analyzer.findings, which the textual checks'
\* findings follow in the returned list.
StructuralFindings ==
  LET src == Source(fs[ret.file_path])
  IN  SubSeq(ret.findings, 1,
             Len(visit(PathStr(ret.file_path), src.lines, src.tree)))

\* C18: the findings the AST analyzer emits for one Python file are in
\* document order: of any two, the earlier one is on a smaller line, or on the
\* same line at a column not greater than the later one's.
C18_StructuralFindingsInDocumentOrder ==
  (/\ ret.op = "scan_file"
   /\ ret.raised = "None"
   /\ suffix(ret.file_path) = ".py"
   /\ Source(fs[ret.file_path]).parse = "ok")
  => \A i, j \in 1..Len(StructuralFindings) :
       i < j =>
         \/ StructuralFindings[i].line_number < StructuralFindings[j].line_number
         \/ /\ StructuralFindings[i].line_number = StructuralFindings[j].line_number
            /\ StructuralFindings[i].column <= StructuralFindings[j].column

\* C19: for a Python source that assigns an f-string SQL text with an embedded
\* variable to a variable and passes that variable to a query-execution call,
\* scan_file reports exactly one finding of type SQL Injection, and it is
\* CRITICAL, of the OWASP category Injection, with CWE-89.
C19_SqlInjectionThroughVariable ==
  (/\ ret.op = "scan_file"
   /\ ret.raised = "None"
   /\ ret.file_path = <<"sub", "b.py">>
   /\ fs[ret.file_path] = "PySqli")
  => /\ Cardinality({k \in 1..Len(ret.findings) :
                       ret.findings[k].vulnerability_type = "SQL Injection"}) = 1
     /\ \A k \in 1..Len(ret.findings) :
          ret.findings[k].vulnerability_type = "SQL Injection" =>
            /\ ret.findings[k].severity = "CRITICAL"
            /\ OWASPValue(ret.findings[k].owasp_category) = "Injection"
            /\ ret.findings[k].cwe_id = "CWE-89"

\* The string literals written on a line: the texts between its first and
\* second quote character, its third and fourth, and so on.
QuotedValues(line) ==
  LET quotes  == {i \in 1..Len(line) : Char(line, i) \in Quote}
      rank(i) == Cardinality({j \in quotes : j <= i})
  IN  {Slice(line, p[1] + 1, p[2] - 1) :
         p \in {q \in quotes \X quotes :
                  /\ rank(q[1]) % 2 = 1
                  /\ rank(q[2]) = rank(q[1]) + 1
                  /\ q[1] + 1 < q[2]}}

\* C20: every Hardcoded Secret finding is HIGH with CWE-798, and its snippet
\* is cut so that it does not hold the whole secret literal of the line it
\* matched, however short the line.
C20_SecretSnippetHidesTheSecret ==
  (/\ ret.op = "scan_file"
   /\ ret.raised = "None"
   /\ is_file(fs, ret.file_path))
  => \A k \in 1..Len(ret.findings) :
       ret.findings[k].vulnerability_type = "Hardcoded Secret" =>
         /\ ret.findings[k].severity = "HIGH"
         /\ ret.findings[k].cwe_id = "CWE-798"
         /\ \A secret \in QuotedValues(
                 Source(fs[ret.file_path]).lines[ret.findings[k].line_number]) :
              ~Contains(ret.findings[k].code_snippet, secret)

\* The source is one statement, and that statement is one call of eval or of
\* exec by its plain name.
OneDynamicCall(src) ==
  /\ src.parse = "ok"
  /\ Len(src.tree.children) = 1
  /\ src.tree.children[1].kind = "Expr"
  /\ src.tree.children[1].children[1].kind = "Call"
  /\ CallFunc(src.tree.children[1].children[1]).kind = "Name"
  /\ CallFunc(src.tree.children[1].children[1]).name \in {"eval", "exec"}

\* C21: for a Python source that is one call of eval or exec, whatever its
\* argument expression and its keyword arguments, scan_file reports exactly
\* one finding, and it is CRITICAL and of the OWASP category Injection.
C21_OneDynamicCallOneFinding ==
  (/\ ret.op = "scan_file"
   /\ ret.raised = "None"
   /\ is_file(fs, ret.file_path)
   /\ suffix(ret.file_path) = ".py"
   /\ OneDynamicCall(Source(fs[ret.file_path])))
  => /\ Len(ret.findings) = 1
     /\ ret.findings[1].severity = "CRITICAL"
     /\ OWASPValue(ret.findings[1].owasp_category) = "Injection"

\* The numbers of the lines that contain a text.
LinesWith(lines, text) == {n \in 1..Len(lines) : Contains(lines[n], text)}

\* The Weak Cryptography findings of the last call.
WeakFindings == SelectSeq(ret.findings, LAMBDA f : f.vulnerability_type = "Weak Cryptography")

\* The source calls hashlib.md5 on one line and hashlib.sha1 on another, and
\* names a weak algorithm nowhere else, in either case.
Md5AndSha1Calls(lines) ==
  /\ Cardinality(LinesWith(lines, "hashlib.md5(")) = 1
  /\ Cardinality(LinesWith(lines, "hashlib.sha1(")) = 1
  /\ LinesWith(lines, "hashlib.md5(") # LinesWith(lines, "hashlib.sha1(")
  /\ \A n \in 1..Len(lines), a \in 1..Len(weak_crypto) :
       Contains(Upper(lines[n]), weak_crypto[a].algo) =>
         n \in LinesWith(lines, "hashlib.md5(") \cup LinesWith(lines, "hashlib.sha1(")

\* C22: for a Python file that calls hashlib.md5 on one line and hashlib.sha1
\* on another and names no weak algorithm elsewhere, scan_file reports exactly
\* two Weak Cryptography findings, one on each of the two lines, both MEDIUM.
C22_Md5AndSha1AreReported ==
  (/\ ret.op = "scan_file"
   /\ ret.raised = "None"
   /\ is_file(fs, ret.file_path)
   /\ suffix(ret.file_path) = ".py"
   /\ Md5AndSha1Calls(Source(fs[ret.file_path]).lines))
  => /\ Len(WeakFindings) = 2
     /\ {WeakFindings[k].line_number : k \in 1..Len(WeakFindings)}
          = LinesWith(Source(fs[ret.file_path]).lines, "hashlib.md5(")
              \cup LinesWith(Source(fs[ret.file_path]).lines, "hashlib.sha1(")
     /\ \A k \in 1..Len(WeakFindings) : WeakFindings[k].severity = "MEDIUM"

\* C23: a scan_file call on a supported file that returns leaves, under the
\* key str(path) of both caches, exactly the findings and metrics it returned,
\* and leaves the entries of every other path as they were; a call that raises
\* or that turns down an unsupported extension changes neither cache; and the
\* two caches hold the same keys after every step.
C23_CachesHoldWhatWasReturned ==
  [][/\ DOMAIN vulnerability_database' = DOMAIN metrics_cache'
     /\ file_scans' = file_scans + 1 =>
          LET key == PathStr(ret'.file_path)
          IN  IF ret'.raised = "None" /\ suffix(ret'.file_path) \in SupportedSuffixes
              THEN /\ DOMAIN vulnerability_database'
                        = DOMAIN vulnerability_database \cup {key}
                   /\ vulnerability_database'[key] = ret'.findings
                   /\ metrics_cache'[key] = ret'.metrics
                   /\ \A k \in DOMAIN vulnerability_database \ {key} :
                        /\ vulnerability_database'[k] = vulnerability_database[k]
                        /\ metrics_cache'[k] = metrics_cache[k]
              ELSE /\ vulnerability_database' = vulnerability_database
                   /\ metrics_cache' = metrics_cache]_vars

\* The lines of all files in the metrics cache.
CachedLines == SumValues([k \in DOMAIN metrics_cache |-> metrics_cache[k].total_lines])

\* One directory scan cached the edited file, the file was rewritten to a
\* source of fewer lines, and scan_file has replaced its cache entry: the
\* cache now holds fewer lines than that scan counted, under several keys.
C23_Witness ==
  /\ ret.op = "scan_file"
  /\ ret.raised = "None"
  /\ ret.file_path = Edited
  /\ Len(scan_history) = 1
  /\ writes = 1
  /\ metrics_cache[PathStr(Edited)] = ret.metrics
  /\ vulnerability_database[PathStr(Edited)] = ret.findings
  /\ Cardinality(DOMAIN metrics_cache) >= 2
  /\ CachedLines < scan_history[1].metrics.total_lines

\* What scan_file gives for a path of the present tree on a CodeGuardian that
\* has scanned nothing yet.
FreshScan(file_path) == scan_file(fs, <<>>, <<>>, file_path).out

\* C24: what scan_file returns for a file depends on the file's path and
\* content only.  A direct call returns (or raises) what a CodeGuardian that
\* never scanned anything would, whatever the caches and the history hold;
\* and the findings a directory scan lists for each file are that file's
\* own, in whatever order the files were enumerated.
C24_FileResultDependsOnFileOnly ==
  /\ ret.op = "scan_file" =>
       /\ ret.raised = FreshScan(ret.file_path).raised
       /\ ret.findings = FreshScan(ret.file_path).findings
       /\ ret.metrics = FreshScan(ret.file_path).metrics
  /\ Scanned =>
       \A p \in ScannedFiles :
         SelectSeq(ret.result.findings, LAMBDA d : d.file_path = PathStr(p))
           = [k \in 1..Len(FreshScan(p).findings) |-> to_dict(FreshScan(p).findings[k])]

\* Two scans of several files each, with the edited file rewritten in
\* between: the second scan ran over caches filled from other contents, and
\* listed findings.
C24_Witness ==
  /\ Scanned
  /\ Len(scan_history) = 2
  /\ writes = 1
  /\ scan_history[1].files_scanned >= 2
  /\ scan_history[2].files_scanned >= 2
  /\ scan_history[1].metrics.total_lines # scan_history[2].metrics.total_lines
  /\ ret.result.total_findings > 0
  /\ DOMAIN vulnerability_database # {}

\* C25: generate_report and get_recommendations are functions of the most
\* recent ScanResult: once something was scanned, they return what they
\* would return if the last scan were the only one in the history, and a
\* call of either leaves scan_history and both caches as they were.
C25_ReportsReadTheLatestScanOnly ==
  [][ret'.op \in {"generate_report", "get_recommendations"} =>
       /\ scan_history' = scan_history
       /\ vulnerability_database' = vulnerability_database
       /\ metrics_cache' = metrics_cache
       /\ (ret'.op = "generate_report" /\ scan_history # <<>>) =>
            ret'.report = generate_report(<<scan_history[Len(scan_history)]>>)
       /\ (ret'.op = "get_recommendations" /\ scan_history # <<>>) =>
            ret'.recommendations = get_recommendations(<<scan_history[Len(scan_history)]>>)]_vars

\* A report after two scans, the first of which found something and the
\* second nothing: the report shows no finding.
C25_Witness ==
  /\ ret.op = "generate_report"
  /\ Len(scan_history) = 2
  /\ scan_history[1].total_findings > 0
  /\ scan_history[2].total_findings = 0
  /\ ret.report.total_findings = 0
  /\ ret.report.detailed = <<>>
  /\ ret.report.generated = scan_history[2].timestamp

\* A fraction held within 0 and 100.
Clamped(x) ==
  IF x.num < 0 THEN Frac(0, 1)
  ELSE IF x.num > 100 * x.den THEN Frac(100, 1)
  ELSE x

\* 0.30, 0.30, 0.25 and 0.15 of four terms, each held within 0 and 100.
WeightedClamped(m) ==
  LET mi   == Clamped(m.maintainability_index)
      cs   == Clamped(Frac(100 - 2 * m.cyclomatic_complexity, 1))
      cov  == Clamped(Frac(m.test_coverage, 1))
      debt == Clamped(Frac(100 - 5 * m.technical_debt_hours, 1))
  IN  Frac(30 * mi.num + mi.den * (30 * cs.num + 25 * cov.num + 15 * debt.num),
           100 * mi.den)

\* C26: calculate_health_score holds each of its four terms within 0 and 100
\* before weighting them, so the score of every CodeMetrics value lies within
\* 0 and 100, also with a coverage above 100 or a negative debt.
C26_HealthScoreWithinRange ==
  ret.op = "calculate_health_score" =>
    /\ FracEq(ret.score, WeightedClamped(ret.metrics))
    /\ ret.score.num >= 0
    /\ ret.score.num <= 100 * ret.score.den

\* max(0, 171 - 52 * complexity / max(1, code_lines))
IndexFormula(cc, code) ==
  Frac(Max(0, 171 * Max(1, code) - 52 * cc), Max(1, code))

\* C27: for every Python file that parses, the maintainability index is
\* max(0, 171 - 52 * complexity / max(1, code_lines)), which is 171 for a
\* file without code lines, and it is never below 0.
C27_MaintainabilityIndexFormula ==
  (/\ ret.op = "scan_file"
   /\ ret.raised = "None"
   /\ is_file(fs, ret.file_path)
   /\ suffix(ret.file_path) = ".py"
   /\ Source(fs[ret.file_path]).parse = "ok")
  => /\ FracEq(ret.metrics.maintainability_index,
               IndexFormula(ret.metrics.cyclomatic_complexity, ret.metrics.code_lines))
     /\ ret.metrics.maintainability_index.num >= 0

\* ast.walk: every node of a tree, the root included.
RECURSIVE Walk(_)
Walk(node) ==
  <<node>> \o Flatten([i \in 1..Len(node.children) |-> Walk(node.children[i])])

\* The nodes of a tree that are of one of some kinds.
NodesOf(tree, kinds) == SelectSeq(Walk(tree), LAMBDA n : n.kind \in kinds)

\* The operands of all boolean chains of a tree beyond the first of each.
ExtraOperands(tree) ==
  LET chains == NodesOf(tree, {"BoolOp"})
  IN  Sum([i \in 1..Len(chains) |-> Len(chains[i].children) - 1])

\* C28: for every Python file that parses, cyclomatic_complexity is the number
\* of if, while, for and exception-handler nodes anywhere in the tree, each
\* counted once, plus the number of operands beyond the first of every
\* boolean chain.
C28_ComplexityCountsDecisionPoints ==
  (/\ ret.op = "scan_file"
   /\ ret.raised = "None"
   /\ is_file(fs, ret.file_path)
   /\ suffix(ret.file_path) = ".py"
   /\ Source(fs[ret.file_path]).parse = "ok")
  => ret.metrics.cyclomatic_complexity
       = Len(NodesOf(Source(fs[ret.file_path]).tree, {"If", "While", "For", "ExceptHandler"}))
         + ExtraOperands(Source(fs[ret.file_path]).tree)

\* A file with a nested if, an elif, a while, a for, an exception handler and
\* a boolean chain of three operands was scanned: its complexity is 7.
C28_Witness ==
  /\ ret.op = "scan_file"
  /\ ret.raised = "None"
  /\ is_file(fs, ret.file_path)
  /\ Len(NodesOf(Source(fs[ret.file_path]).tree, {"If"})) = 2
  /\ Len(NodesOf(Source(fs[ret.file_path]).tree, {"While"})) = 1
  /\ Len(NodesOf(Source(fs[ret.file_path]).tree, {"For"})) = 1
  /\ Len(NodesOf(Source(fs[ret.file_path]).tree, {"ExceptHandler"})) = 1
  /\ ExtraOperands(Source(fs[ret.file_path]).tree) = 2
  /\ ret.metrics.cyclomatic_complexity = 7

\* C29: the health_score of every ScanResult is 45, whatever was scanned
\* (30 from the complexity term and 15 from the debt term of an aggregate
\* whose complexity, index, coverage and debt are never set); so after a
\* completed scan get_recommendations always holds the health recommendation
\* and never the "no critical issues" entry.
C29_AggregateHealthIsAlways45 ==
  /\ \A k \in 1..Len(scan_history) :
       FracEq(scan_history[k].metrics.health_score, Frac(45, 1))
  /\ (Recommended /\ scan_history # <<>>) =>
       /\ \E i \in 1..Len(ret.recommendations) :
            ret.recommendations[i] = "Improve code quality - current health score below 70"
       /\ \A i \in 1..Len(ret.recommendations) :
            ret.recommendations[i] # "No critical issues detected. Maintain vigilance."

\* Recommendations asked for after a scan of files without any finding, one
\* of them with seven decision points: the health recommendation is the only
\* one.
C29_Witness ==
  /\ Recommended
  /\ scan_history # <<>>
  /\ Latest.total_findings = 0
  /\ Latest.files_scanned >= 2
  /\ \E p \in DOMAIN metrics_cache : metrics_cache[p].cyclomatic_complexity = 7
  /\ ret.recommendations = <<"Improve code quality - current health score below 70">>

\* The Weak Cryptography findings of the last call that name an algorithm.
WeakFindingsOf(algo) ==
  SelectSeq(WeakFindings,
            LAMBDA f : f.description = "Use of weak cryptographic algorithm: " \o algo)

====
